---- MODULE Spec2Model ----
(***************************************************************************)
(* A model of the arabic-apis textbook pipeline:                           *)
(*   - enrich_with_quran_api (textbook_enrich.py): token, collection of    *)
(*     verse keys and context windows, one fetch per key, attachment;      *)
(*   - build_json_from_rows and its sort-key heuristic (textbook_data.py); *)
(*   - validate_quran_reference and parse_exercise_line of the OCR parser  *)
(*     (process_textbook_llm_output.py).                                   *)
(* Each part has its own specification over its own variables; the other   *)
(* variables keep their initial value.                                     *)
(***************************************************************************)
EXTENDS Integers, Sequences, FiniteSets, TLC

VARIABLES
    \* ---- enrich_with_quran_api
    data_empty,     \* `not data`: the document is the empty dict
    vocabulary,     \* data["vocabulary"]
    exercises,      \* data["exercises"]
    verse_keys,     \* the set of (surah, ayah) keys to fetch
    cache,          \* key -> response of get_verse
    ch, vs,         \* the loop variables of the fetch loop, read by attach
    token_calls,    \* number of get_access_token calls
    verse_calls,    \* key -> number of get_verse calls
    faults,         \* number of fetches that returned less than a full verse
    pc,             \* position in enrich_with_quran_api
    \* ---- build_json_from_rows
    rows,           \* the rows argument
    row_i,          \* index of the row the loop is at
    vocab,          \* the vocab list built so far
    exercises_out,  \* the exercises list built so far
    part_of_speech_guessed_previous,
    rows_pc,        \* "running", "done", or how the call raised
    \* ---- guess_sort_letter_part_of_speech_english
    eng_str, pos,   \* the arguments
    guess_result,   \* the returned triple, or that the call raised
    guess_pc,
    \* ---- validate_quran_reference, parse_exercise_line
    v_surah, v_ayah,    \* the reference
    v_result,           \* the (is_valid, message) pair returned
    parsed_exercise,    \* the dict parse_exercise_line returned
    v_pc,
    \* ---- the glossary views of arabic-textbook-to-tex-file.py
    glossary_vocabulary, fh, glossary_pc,
    \* ---- main of arabic-textbook-to-tex-file.py
    args, env, files, api_token_calls, api_verse_calls, enriched_json, cli_pc,
    \* ---- TextbookProcessor: the vocabulary section
    vocab_line, self_current_lesson, current_vocab_type, vocabulary_headers, vocab_entry, ocr_pc,
    \* ---- the word tally: tex_utils.tex_remove_arabic_marks / TextbookProcessor.extract_arabic_words
    marks_text, marks_result, self_arabic_words, extract_calls, marks_pc,
    \* ---- a document handed to enrich_with_quran_api again: the run number and the document and responses of the run before
    runs, before_vocabulary, before_exercises, first_cache, first_loop,
    \* ---- write_json and read_json: the document, the file, the document read back
    json_doc, json_file, json_first_file, json_loaded, json_pc,
    \* ---- read_csv: the header and the data rows of the file, the rows returned and how the call ended
    csv_header, csv_fieldnames, csv_lines, csv_rows, csv_outcome, csv_pc,
    \* ---- TextbookProcessor.process_file, the line scanner
    in_vocabulary_section, in_exercise_section, p_current_page, p_current_lesson, p_vocabulary_headers, p_current_vocab_type, vocabulary_data, exercises_data, p_arabic_words, scan_lines,
    \* ---- write_exercises_by_chapter
    writer_exercises, writer_fh, writer_pc

enrich_vars == <<data_empty, vocabulary, exercises, verse_keys, cache, ch, vs,
                 token_calls, verse_calls, faults, pc>>

rows_vars == <<rows, row_i, vocab, exercises_out, part_of_speech_guessed_previous,
               rows_pc>>

guess_vars == <<eng_str, pos, guess_result, guess_pc>>

validate_vars == <<v_surah, v_ayah, v_result, parsed_exercise, v_pc>>

glossary_vars == <<glossary_vocabulary, fh, glossary_pc>>

cli_vars == <<args, env, files, api_token_calls, api_verse_calls, enriched_json, cli_pc>>

ocr_vars == <<vocab_line, self_current_lesson, current_vocab_type, vocabulary_headers, vocab_entry, ocr_pc>>

marks_vars == <<marks_text, marks_result, self_arabic_words, extract_calls, marks_pc>>

rerun_vars == <<runs, before_vocabulary, before_exercises, first_cache, first_loop>>

json_vars == <<json_doc, json_file, json_first_file, json_loaded, json_pc>>

csv_vars == <<csv_header, csv_fieldnames, csv_lines, csv_rows, csv_outcome, csv_pc>>

scan_vars == <<in_vocabulary_section, in_exercise_section, p_current_page, p_current_lesson, p_vocabulary_headers, p_current_vocab_type, vocabulary_data, exercises_data, p_arabic_words, scan_lines>>

writer_vars == <<writer_exercises, writer_fh, writer_pc>>

vars == <<enrich_vars,
         rows_vars,
         guess_vars,
         validate_vars,
         glossary_vars,
         cli_vars,
         ocr_vars,
         marks_vars,
         rerun_vars,
         json_vars,
         csv_vars,
         scan_vars,
         writer_vars>>

\* what a step of one part leaves alone
not_enrich_vars == <<rows_vars, guess_vars, validate_vars,
    glossary_vars,
    cli_vars,
    ocr_vars,
    marks_vars,
    rerun_vars,
    json_vars,
    csv_vars,
    scan_vars,
    writer_vars>>
not_rows_vars == <<enrich_vars, guess_vars, validate_vars,
    glossary_vars,
    cli_vars,
    ocr_vars,
    marks_vars,
    rerun_vars,
    json_vars,
    csv_vars,
    scan_vars,
    writer_vars>>
not_guess_vars == <<enrich_vars, rows_vars, validate_vars,
    glossary_vars,
    cli_vars,
    ocr_vars,
    marks_vars,
    rerun_vars,
    json_vars,
    csv_vars,
    scan_vars,
    writer_vars>>
not_validate_vars == <<enrich_vars, rows_vars, guess_vars,
    glossary_vars,
    cli_vars,
    ocr_vars,
    marks_vars,
    rerun_vars,
    json_vars,
    csv_vars,
    scan_vars,
    writer_vars>>
not_glossary_vars == <<enrich_vars, rows_vars, guess_vars, validate_vars,
    cli_vars,
    ocr_vars,
    marks_vars,
    rerun_vars,
    json_vars,
    csv_vars,
    scan_vars,
    writer_vars>>
not_cli_vars == <<enrich_vars, rows_vars, guess_vars, validate_vars, glossary_vars,
    ocr_vars,
    marks_vars,
    rerun_vars,
    json_vars,
    csv_vars,
    scan_vars,
    writer_vars>>
not_ocr_vars == <<enrich_vars, rows_vars, guess_vars, validate_vars, glossary_vars, cli_vars,
    marks_vars,
    rerun_vars,
    json_vars,
    csv_vars,
    scan_vars,
    writer_vars>>
not_marks_vars == <<enrich_vars, rows_vars, guess_vars, validate_vars, glossary_vars, cli_vars, ocr_vars,
    rerun_vars,
    json_vars,
    csv_vars,
    scan_vars,
    writer_vars>>
not_rerun_vars == <<enrich_vars, rows_vars, guess_vars, validate_vars, glossary_vars, cli_vars, ocr_vars, marks_vars,
    json_vars,
    csv_vars,
    scan_vars,
    writer_vars>>
not_json_vars == <<enrich_vars, rows_vars, guess_vars, validate_vars, glossary_vars, cli_vars, ocr_vars, marks_vars, rerun_vars,
    csv_vars,
    scan_vars,
    writer_vars>>
not_csv_vars == <<enrich_vars, rows_vars, guess_vars, validate_vars, glossary_vars, cli_vars, ocr_vars, marks_vars, rerun_vars, json_vars,
    scan_vars,
    writer_vars>>
not_scan_vars == <<enrich_vars, rows_vars, guess_vars, validate_vars, glossary_vars, cli_vars, ocr_vars, marks_vars, rerun_vars, json_vars, csv_vars,
    writer_vars>>
not_writer_vars == <<enrich_vars, rows_vars, guess_vars, validate_vars, glossary_vars, cli_vars, ocr_vars, marks_vars, rerun_vars, json_vars, csv_vars, scan_vars>>

-----------------------------------------------------------------------------
(* Bounds of the model *)

\* longest vocabulary list of a document
MaxVocab == 2
\* longest exercise list of a document
MaxEx == 1
\* most fetches of one run that return less than a full verse payload
MaxFaults == 1
\* longest rows argument of build_json_from_rows
MaxRows == 2
\* longest vocabulary list the glossaries are written of
MaxGlossary == 3
\* most parts of a vocabulary line
MaxParts == 4
MaxExtract == 3
MaxRuns == 2
MaxKeys == 2
MaxCols == 12
MaxCsvRows == 2

\* the lines of an OCR file that the scanner reads
MaxLines == 5

\* the rows of a run of rows of mixed kinds
MaxSmoothingRows == 3

\* the pieces of a text that begins with a qualifier
MaxQualifierPieces == 4

\* the rows of a run of rows with qualified English texts
MaxStoredIndexRows == 2

\* the exercises of a document that is rendered
MaxWrittenExercises == 2
\* most pieces an English string is made of
MaxPieces == 4
\* largest surah number validated
MaxSurahInput == 115
\* largest ayah number validated
MaxAyahInput == 287

-----------------------------------------------------------------------------
(* Generic helpers *)

SeqsUpTo(S, n) == UNION {[1..k -> S] : k \in 0..n}

Range(s) == {s[i] : i \in DOMAIN s}

-----------------------------------------------------------------------------
(* textbook_enrich.py *)

QURAN_CHAPTERS ==
    << 7, 286, 200, 176, 120, 165, 206, 75, 129, 109, 123, 111,
       43, 52, 99, 128, 111, 110, 98, 135, 112, 78, 118, 64,
       77, 227, 93, 88, 69, 60, 34, 30, 73, 54, 45, 83,
       182, 88, 75, 85, 54, 53, 89, 59, 37, 35, 38, 29,
       18, 45, 60, 49, 62, 55, 78, 96, 29, 22, 24, 13,
       14, 11, 11, 18, 12, 12, 30, 52, 52, 44, 28, 28,
       20, 56, 40, 31, 50, 40, 46, 42, 29, 19, 36, 25,
       22, 17, 19, 26, 30, 20, 15, 21, 11, 8, 8, 19,
       5, 8, 8, 11, 11, 8, 3, 9, 5, 4, 7, 3,
       6, 3, 5, 4, 5, 6 >>

\* QURAN_CHAPTERS.get(ch) or 0
ChaptersGet(c) == IF c \in DOMAIN QURAN_CHAPTERS THEN QURAN_CHAPTERS[c] ELSE 0

\* the default of num_context_lines_before
NumContextLinesBefore == 1
\* the default of num_context_lines_after
NumContextLinesAfter == 1

\* translations_english.get(str(resource_id)) or ""
translations_english(id) ==
    CASE id = 85 -> "M.A.S. Abdel Haleem"
      [] id = 84 -> "T. Usmani"
      [] id = 95 -> "A. Maududi (Tafhim commentary)"
      [] id = 22 -> "A. Yusuf Ali"
      [] id = 203 -> "Al-Hilali & Khan"
      [] id = 19 -> "M. Pickthall"
      [] id = 20 -> "Saheeh Intl."
      [] id = 57 -> "Transliteration"
      [] OTHER -> ""

\* translations=[19, 20, 57] of the get_verse call
RequestedTranslations == <<19, 20, 57>>

add_ref2(keys, ch_ref, vs_ref) ==
    IF ch_ref # 0 /\ vs_ref # 0 THEN keys \cup {<<ch_ref, vs_ref>>} ELSE keys

get_sequential_ayah(ch_current, vs_current, vs_to_get, other_ch) ==
    LET ayahs_in_current_surah == ChaptersGet(ch_current)
        vs_to_get_calc == vs_current + vs_to_get
    IN  IF vs_to_get < 0
        THEN IF vs_to_get_calc <= 0
             THEN IF other_ch
                  THEN LET ch_to_get == ch_current - 1
                           ayahs_in_previous_surah == ChaptersGet(ch_to_get)
                           vs_to_get_previous_ch_calc ==
                               ayahs_in_previous_surah + vs_to_get_calc
                       IN  IF vs_to_get_previous_ch_calc < 0
                           THEN <<ch_to_get, 1>>
                           ELSE <<ch_to_get, vs_to_get_previous_ch_calc>>
                  ELSE <<0, 0>>
             ELSE <<ch_current, vs_to_get_calc>>
        ELSE IF vs_to_get_calc > ayahs_in_current_surah
             THEN IF other_ch
                  THEN LET ch_to_get == ch_current + 1
                           ayahs_in_next_surah == ChaptersGet(ch_to_get)
                           vs_to_get_next_ch_calc ==
                               vs_to_get_calc - ayahs_in_current_surah
                       IN  IF vs_to_get_next_ch_calc > ayahs_in_next_surah
                           THEN <<ch_to_get, ayahs_in_next_surah>>
                           ELSE <<ch_to_get, vs_to_get_next_ch_calc>>
                  ELSE <<0, 0>>
             ELSE <<ch_current, vs_to_get_calc>>

\* a fresh context line dict {"surah": .., "ayah": ..}; quranic_sources is
\* absent, which item.get("quranic_sources") or [] reads as the empty list
ContextLine(p) == [surah |-> p[1], ayah |-> p[2], quranic_sources |-> <<>>]

\* the call of get_sequential_ayah made by the context loop
ContextAyah_crossing(current_ch, current_vs, i) ==
    get_sequential_ayah(current_ch, current_vs, i, TRUE)

ContextAyah(current_ch, current_vs, i) ==
    get_sequential_ayah(current_ch, current_vs, i, FALSE)

RECURSIVE ContextLoop(_, _, _, _)
\* for i in range(i, num_context_lines_after + 1)
ContextLoop(current_ch, current_vs, i, last) ==
    IF i > last THEN <<>>
    ELSE LET p == ContextAyah(current_ch, current_vs, i)
             rest == ContextLoop(current_ch, current_vs, i + 1, last)
         IN  IF p[1] # 0 /\ p[2] # 0 THEN <<ContextLine(p)>> \o rest ELSE rest

construct_context_lines_index_list(current_ch, current_vs, before, after) ==
    ContextLoop(current_ch, current_vs, 0 - before, after)

RECURSIVE CollectVocab(_, _)
\* for vocab in data.get("vocabulary"): add_ref2(surah, ayah)
CollectVocab(items, keys) ==
    IF items = <<>> THEN keys
    ELSE CollectVocab(Tail(items), add_ref2(keys, Head(items).surah, Head(items).ayah))

RECURSIVE CollectLines(_, _)
\* for line in context_lines: add_ref2(line.surah, line.ayah)
CollectLines(lines, keys) ==
    IF lines = <<>> THEN keys
    ELSE CollectLines(Tail(lines), add_ref2(keys, Head(lines).surah, Head(lines).ayah))

\* the context_lines computed for one exercise; has_context is FALSE when the
\* exercise gets no "context_lines" key
ExerciseWithContext(e) ==
    IF e.surah # 0 /\ e.ayah # 0
    THEN [e EXCEPT !.context_lines =
                      construct_context_lines_index_list(
                          e.surah, e.ayah, NumContextLinesBefore, NumContextLinesAfter),
                   !.has_context = TRUE]
    ELSE e

RECURSIVE CollectExercises(_, _)
\* for exercise in data.get("exercises"): the exercise's own key and the keys
\* of its context lines
CollectExercises(items, keys) ==
    IF items = <<>> THEN keys
    ELSE LET e == ExerciseWithContext(Head(items))
             own == add_ref2(keys, e.surah, e.ayah)
         IN  CollectExercises(Tail(items), CollectLines(e.context_lines, own))

-----------------------------------------------------------------------------
(* The responses of the verse-fetch interface (quran_api.get_verse returns   *)
(* response.json(), or raises).  kind "null" is the JSON null, "object" a    *)
(* JSON object; has_verse tells whether the object has a "verse" member; the *)
(* text flags tell which text fields are present and non-empty.              *)

FullVerse == [kind |-> "object", has_verse |-> TRUE, text_indopak |-> TRUE,
              text_uthmani |-> TRUE, text_imlaei |-> TRUE,
              translations |-> RequestedTranslations]

UthmaniOnly == [FullVerse EXCEPT !.text_indopak = FALSE, !.text_imlaei = FALSE,
                                 !.translations = <<>>]

EmptyVerse == [UthmaniOnly EXCEPT !.text_uthmani = FALSE]

NoVerse == [EmptyVerse EXCEPT !.has_verse = FALSE]

NullJson == [NoVerse EXCEPT !.kind = "null"]

FaultyResponses == {UthmaniOnly, EmptyVerse, NoVerse, NullJson}

\* one Verse Source dict; url is the pair formatted into source_url
ArabicSource(url, type, key) ==
    [source_name |-> "quran.com", source_url |-> url, text_type |-> type,
     language |-> "arabic", text |-> <<type, key>>,
     translation_resource_id |-> 0, translation_resource_name |-> ""]

TranslationSource(url, id, key) ==
    [source_name |-> "quran.com", source_url |-> url, text_type |-> "translation",
     language |-> "english", text |-> <<"translation", key>>,
     translation_resource_id |-> id,
     translation_resource_name |-> translations_english(id)]

\* the list of sources attach appends for a response with a verse payload
SourcesOf(verse_json, url, key) ==
    (IF verse_json.text_indopak THEN <<ArabicSource(url, "indopak", key)>> ELSE <<>>)
    \o (IF verse_json.text_uthmani THEN <<ArabicSource(url, "uthmani", key)>> ELSE <<>>)
    \o (IF verse_json.text_imlaei THEN <<ArabicSource(url, "imlaei", key)>> ELSE <<>>)
    \o [i \in DOMAIN verse_json.translations |->
            TranslationSource(url, verse_json.translations[i], key)]

\* attach(item) reaches verse_json["verse"] on an object without that member
AttachRaises(item, c) ==
    /\ item.surah # 0 /\ item.ayah # 0
    /\ <<item.surah, item.ayah>> \in DOMAIN c
    /\ c[<<item.surah, item.ayah>>].kind = "object"
    /\ ~c[<<item.surah, item.ayah>>].has_verse

attach_noappend(item, c, loop_ch, loop_vs) == item

attach_replace(item, c, loop_ch, loop_vs) ==
    LET key == <<item.surah, item.ayah>>
    IN  IF item.surah = 0 \/ item.ayah = 0 THEN item
        ELSE IF key \notin DOMAIN c \/ c[key].kind = "null" THEN item
        ELSE [item EXCEPT !.quranic_sources = SourcesOf(c[key], <<loop_ch, loop_vs>>, key)]

\* attach(item), when it does not raise
attach(item, c, loop_ch, loop_vs) ==
    LET key == <<item.surah, item.ayah>>
    IN  IF item.surah = 0 \/ item.ayah = 0 THEN item
        ELSE IF key \notin DOMAIN c \/ c[key].kind = "null" THEN item
        ELSE [item EXCEPT !.quranic_sources =
                  @ \o SourcesOf(c[key], <<loop_ch, loop_vs>>, key)]


-----------------------------------------------------------------------------
(* The attach phase: attach(vocab) for every vocabulary entry, then for every *)
(* exercise attach(exercise) followed by attach(line) for its context lines.  *)
(* The items are numbered in that order; the first item on which attach       *)
(* raises ends the run, the items before it stay mutated.                     *)

RECURSIVE SlotsBefore(_, _)
\* the number of attach calls made for exercises 1..j-1
SlotsBefore(exs, j) ==
    IF j <= 1 THEN 0
    ELSE SlotsBefore(exs, j - 1) + 1 + Len(exs[j - 1].context_lines)

VocabSlot(i) == i
ExerciseSlot(voc, exs, j) == Len(voc) + SlotsBefore(exs, j) + 1
LineSlot(voc, exs, j, k) == ExerciseSlot(voc, exs, j) + k

RaisingSlots(voc, exs, c) ==
    {VocabSlot(i) : i \in {x \in DOMAIN voc : AttachRaises(voc[x], c)}}
    \cup {ExerciseSlot(voc, exs, j) : j \in {x \in DOMAIN exs : AttachRaises(exs[x], c)}}
    \cup UNION {{LineSlot(voc, exs, j, k) :
                    k \in {x \in DOMAIN exs[j].context_lines :
                              AttachRaises(exs[j].context_lines[x], c)}} :
                j \in DOMAIN exs}

\* attach is reached for the item numbered slot
Reached(slot, raising) == \A r \in raising : slot < r

AttachIfReached(item, slot, raising, c, loop_ch, loop_vs) ==
    IF Reached(slot, raising) THEN attach(item, c, loop_ch, loop_vs) ELSE item

AttachVocabulary(voc, exs, c, loop_ch, loop_vs) ==
    LET raising == RaisingSlots(voc, exs, c)
    IN  [i \in DOMAIN voc |->
            AttachIfReached(voc[i], VocabSlot(i), raising, c, loop_ch, loop_vs)]

AttachExercises(voc, exs, c, loop_ch, loop_vs) ==
    LET raising == RaisingSlots(voc, exs, c)
    IN  [j \in DOMAIN exs |->
            LET e == AttachIfReached(exs[j], ExerciseSlot(voc, exs, j), raising,
                                     c, loop_ch, loop_vs)
            IN  [e EXCEPT !.context_lines =
                    [k \in DOMAIN exs[j].context_lines |->
                        AttachIfReached(exs[j].context_lines[k],
                                        LineSlot(voc, exs, j, k), raising,
                                        c, loop_ch, loop_vs)]]]

-----------------------------------------------------------------------------
(* enrich_with_quran_api as a state machine *)

\* the references the documents of the model draw from
VocabRefs == {<<0, 0>>, <<2, 0>>, <<2, 286>>}
ExerciseRefs == {<<0, 0>>, <<2, 286>>, <<3, 1>>, <<2, 288>>}

VocabEntry(i, ref) ==
    [id |-> i, surah |-> ref[1], ayah |-> ref[2], quranic_sources |-> <<>>]

ExerciseEntry(i, ref) ==
    [id |-> i, surah |-> ref[1], ayah |-> ref[2], quranic_sources |-> <<>>,
     context_lines |-> <<>>, has_context |-> FALSE]

CallCount(calls, key) == IF key \in DOMAIN calls THEN calls[key] ELSE 0

KeysLeft_refetch(keys, calls) == {k \in keys : CallCount(calls, k) < 2}

\* the keys the loop `for (ch, vs) in verse_keys` has not visited yet
KeysLeft(keys, calls) == keys \ DOMAIN calls

EnrichInit ==
    /\ data_empty \in BOOLEAN
    /\ \E vrefs \in SeqsUpTo(VocabRefs, MaxVocab), erefs \in SeqsUpTo(ExerciseRefs, MaxEx) :
          /\ vocabulary = IF data_empty THEN <<>>
                          ELSE [i \in DOMAIN vrefs |-> VocabEntry(i, vrefs[i])]
          /\ exercises = IF data_empty THEN <<>>
                         ELSE [i \in DOMAIN erefs |-> ExerciseEntry(i, erefs[i])]
    /\ verse_keys = {}
    /\ cache = <<>>
    /\ ch = 0
    /\ vs = 0
    /\ token_calls = 0
    /\ verse_calls = <<>>
    /\ faults = 0
    /\ pc = "start"

\* if not data: return data
ReturnEmpty ==
    /\ pc = "start"
    /\ data_empty
    /\ pc' = "done"
    /\ UNCHANGED <<data_empty, vocabulary, exercises, verse_keys, cache, ch, vs,
                   token_calls, verse_calls, faults>>
    /\ UNCHANGED not_enrich_vars

\* token = get_access_token(...): returns the token, or raises
GetAccessToken ==
    /\ pc = "start"
    /\ ~data_empty
    /\ token_calls' = token_calls + 1
    /\ pc' \in {"collect", "raised_token"}
    /\ UNCHANGED <<data_empty, vocabulary, exercises, verse_keys, cache, ch, vs,
                   verse_calls, faults>>
    /\ UNCHANGED not_enrich_vars

\* the two collection loops
CollectRefs ==
    /\ pc = "collect"
    /\ verse_keys' = CollectExercises(exercises, CollectVocab(vocabulary, {}))
    /\ exercises' = [j \in DOMAIN exercises |-> ExerciseWithContext(exercises[j])]
    /\ pc' = "fetch"
    /\ UNCHANGED <<data_empty, vocabulary, cache, ch, vs, token_calls, verse_calls,
                   faults>>
    /\ UNCHANGED not_enrich_vars

\* one iteration of the fetch loop: cache[(ch, vs)] = get_verse(...), which
\* makes extra_token_calls token requests
FetchVerseWith(extra_token_calls) ==
    /\ pc = "fetch"
    /\ \E key \in KeysLeft(verse_keys, verse_calls) :
          /\ ch' = key[1]
          /\ vs' = key[2]
          /\ verse_calls' = [k \in DOMAIN verse_calls \cup {key} |->
                                CallCount(verse_calls, k) + IF k = key THEN 1 ELSE 0]
          /\ \/ /\ pc' = "raised_fetch"
                /\ UNCHANGED <<cache, faults>>
             \/ /\ cache' = [k \in DOMAIN cache \cup {key} |->
                                IF k = key THEN FullVerse ELSE cache[k]]
                /\ UNCHANGED <<pc, faults>>
             \/ /\ faults < MaxFaults
                /\ \E r \in FaultyResponses :
                      cache' = [k \in DOMAIN cache \cup {key} |->
                                   IF k = key THEN r ELSE cache[k]]
                /\ faults' = faults + 1
                /\ UNCHANGED pc
    /\ token_calls' = token_calls + extra_token_calls
    /\ UNCHANGED <<data_empty, vocabulary, exercises, verse_keys>>
    /\ UNCHANGED not_enrich_vars

FetchVerse_retoken == FetchVerseWith(1)

FetchVerse == FetchVerseWith(0)

\* the attach loops, once the fetch loop has visited every key
AttachAll ==
    /\ pc = "fetch"
    /\ KeysLeft(verse_keys, verse_calls) = {}
    /\ vocabulary' = AttachVocabulary(vocabulary, exercises, cache, ch, vs)
    /\ exercises' = AttachExercises(vocabulary, exercises, cache, ch, vs)
    /\ pc' = IF RaisingSlots(vocabulary, exercises, cache) = {} THEN "done"
             ELSE "raised_attach"
    /\ UNCHANGED <<data_empty, verse_keys, cache, ch, vs, token_calls, verse_calls,
                   faults>>
    /\ UNCHANGED not_enrich_vars

EnrichNext ==
    \/ ReturnEmpty
    \/ GetAccessToken
    \/ CollectRefs
    \/ FetchVerse
    \/ AttachAll

EnrichIdle ==
    /\ data_empty = TRUE
    /\ vocabulary = <<>>
    /\ exercises = <<>>
    /\ verse_keys = {}
    /\ cache = <<>>
    /\ ch = 0
    /\ vs = 0
    /\ token_calls = 0
    /\ verse_calls = <<>>
    /\ faults = 0
    /\ pc = "idle"

-----------------------------------------------------------------------------
(* Strings are sequences of one-character strings, so that strip, lower,    *)
(* find, slicing and the regular expression act on characters.              *)

\* str.isspace for the characters of the model
IsSpace(c) == c \in {" "}

\* \w for the characters of the model
IsWordChar(c) == c \in {"t", "o", "w", "f", "T", "O", "W", "F"}

\* one character of str.lower
LowerChar(c) ==
    CASE c = "T" -> "t"
      [] c = "O" -> "o"
      [] c = "W" -> "w"
      [] c = "F" -> "f"
      [] OTHER -> c

Lower(s) == [i \in DOMAIN s |-> LowerChar(s[i])]

RECURSIVE LStrip(_)
LStrip(s) == IF s # <<>> /\ IsSpace(Head(s)) THEN LStrip(Tail(s)) ELSE s

RECURSIVE RStrip(_)
RStrip(s) ==
    IF s # <<>> /\ IsSpace(s[Len(s)]) THEN RStrip(SubSeq(s, 1, Len(s) - 1)) ELSE s

\* str.strip()
Strip(s) == RStrip(LStrip(s))

\* str.find(c): the 0-based index of the first c, or -1
Find(s, c) ==
    IF \E i \in DOMAIN s : s[i] = c
    THEN (CHOOSE i \in DOMAIN s : s[i] = c /\ \A j \in 1..(i - 1) : s[j] # c) - 1
    ELSE -1

\* s[k:] for a 0-based k >= 0
SliceFrom(s, k) == SubSeq(s, k + 1, Len(s))

RECURSIVE Split(_, _)
\* str.split(c)
Split(s, c) ==
    LET k == Find(s, c)
    IN  IF k = -1 THEN <<s>>
        ELSE <<SubSeq(s, 1, k)>> \o Split(SliceFrom(s, k + 1), c)

RECURSIVE Flatten(_)
\* the concatenation of a sequence of strings
Flatten(ss) == IF ss = <<>> THEN <<>> ELSE Head(ss) \o Flatten(Tail(ss))

-----------------------------------------------------------------------------
(* textbook_data.py *)

remove_leading_parens(english_string) ==
    IF english_string # <<>> /\ Head(english_string) = "("
    THEN Strip(SliceFrom(english_string, Find(english_string, ")") + 1))
    ELSE IF english_string # <<>> /\ Head(english_string) = "["
    THEN Strip(SliceFrom(english_string, 1))
    ELSE english_string

\* re.search(r'^to\s+\w', s): match.end(), or -1 when there is no match
MatchToVerbEnd(s) ==
    IF /\ Len(s) >= 4
       /\ s[1] = "t" /\ s[2] = "o" /\ IsSpace(s[3])
       /\ \E k \in 4..Len(s) : IsWordChar(s[k]) /\ \A j \in 3..(k - 1) : IsSpace(s[j])
    THEN CHOOSE k \in 4..Len(s) : IsWordChar(s[k]) /\ \A j \in 3..(k - 1) : IsSpace(s[j])
    ELSE -1

\* what a call returns that raised IndexError at test_str[sort_start_index]
GuessRaised ==
    [raised |-> TRUE, sort_letter |-> "", sort_start_index |-> -1, part_of_speech |-> ""]

\* guess_sort_letter_part_of_speech_english(eng_str, pos); pos "none" is None
guess_sort_letter_part_of_speech_english(s, p) ==
    IF s = <<>>
    THEN [raised |-> FALSE, sort_letter |-> "", sort_start_index |-> -1,
          part_of_speech |-> "empty_string"]
    ELSE LET test_str == remove_leading_parens(Lower(Strip(s)))
             end == MatchToVerbEnd(test_str)
             result == IF end # -1 THEN "verb" ELSE "noun"
             sort_start_index == IF end # -1 THEN end - 1 ELSE 0
         IN  IF sort_start_index >= Len(test_str)
             THEN GuessRaised
             ELSE [raised |-> FALSE,
                   sort_letter |-> test_str[sort_start_index + 1],
                   sort_start_index |-> sort_start_index,
                   part_of_speech |-> IF p = "verb" /\ result = "noun" THEN p ELSE result]

guess_sort_letter_arabic(arabic_string) ==
    IF arabic_string # <<>>
    THEN [sort_letter |-> arabic_string[1], sort_start_index |-> 0]
    ELSE [sort_letter |-> "", sort_start_index |-> -1]

Digits == <<"0", "1", "2", "3", "4", "5", "6", "7", "8", "9">>

DigitValue(c) == (CHOOSE i \in DOMAIN Digits : Digits[i] = c) - 1

RECURSIVE DigitsValue(_)
DigitsValue(s) ==
    IF s = <<>> THEN 0
    ELSE 10 * DigitsValue(SubSeq(s, 1, Len(s) - 1)) + DigitValue(s[Len(s)])

\* int(text): surrounding whitespace and one sign are accepted; anything that
\* is not a run of digits raises ValueError (ok = FALSE)
ParseInt(text) ==
    LET u == Strip(text)
        signed == u # <<>> /\ Head(u) \in {"+", "-"}
        body == IF signed THEN Tail(u) ELSE u
    IN  IF body = <<>> \/ \E i \in DOMAIN body : body[i] \notin Range(Digits)
        THEN [ok |-> FALSE, value |-> 0]
        ELSE [ok |-> TRUE,
              value |-> IF signed /\ Head(u) = "-" THEN 0 - DigitsValue(body)
                        ELSE DigitsValue(body)]

\* the value of a dict key the row does not have
NoColumn == <<"<absent>">>

\* str(row.get(key, "") or "")
Text(v) == IF v = NoColumn THEN <<>> ELSE v

\* the dict appended for the "B" exercise of Lesson 3; the text is
\* "<Sing. / Perf.>: <Plural / Verbal N.>"
SpecialExerciseB(row, chapter_number) ==
    [exercise_text |-> Text(row.col1) \o <<":", " ">> \o Text(row.col3),
     exercise_chapter |-> chapter_number,
     exercise_number |-> 21,
     quranic_reference |-> <<>>,
     surah |-> 0,
     ayah |-> 0]

\* "<sura>:<verse>" is the pair; "" is the empty sequence
QuranicReference(sura, verse) ==
    IF sura # 0 /\ verse # 0 THEN <<sura, verse>> ELSE <<>>

\* int(row.get("Sura")) if row.get("Sura") else 0
RefNumber(text) ==
    IF Text(text) # <<>> THEN ParseInt(text) ELSE [ok |-> TRUE, value |-> 0]

\* the exercise branch of the row loop
ExerciseRow(row, chapter_number) ==
    LET exno == ParseInt(row.exercise_no)
        exercise_number == IF exno.ok THEN exno.value ELSE 0
        sura == RefNumber(row.sura)
        verse == RefNumber(row.verse)
        exercise_string == IF row.arabic_text # NoColumn THEN row.arabic_text
                           ELSE Text(row.col1)
    IN  IF ~exno.ok /\ row.exercise_no = <<"B">>
        THEN [status |-> "ok", exercises |-> <<SpecialExerciseB(row, chapter_number)>>]
        ELSE IF ~sura.ok \/ ~verse.ok
        THEN [status |-> "raised_value_error", exercises |-> <<>>]
        ELSE [status |-> "ok",
              exercises |-> <<[exercise_text |-> exercise_string,
                               exercise_chapter |-> chapter_number,
                               exercise_number |-> exercise_number,
                               quranic_reference |->
                                   QuranicReference(sura.value, verse.value),
                               surah |-> sura.value,
                               ayah |-> verse.value,
                               quranic_sources |-> <<>>]>>]

\* one dict of definitions_list
Definition(english_string, part_of_speech_guessed) ==
    LET g == guess_sort_letter_part_of_speech_english(
                 Strip(english_string), part_of_speech_guessed)
    IN  [english_definition |-> Strip(english_string),
         source_name |-> "textbook_jones",
         english_sort_letter |-> g.sort_letter,
         english_sort_start_index |-> g.sort_start_index]

\* the part of speech of a vocabulary row, after the smoothing with the
\* previous row's
PartOfSpeechGuessed(row, previous) ==
    LET g == guess_sort_letter_part_of_speech_english(Text(row.english), "none")
    IN  IF /\ g.part_of_speech = "noun"
           /\ Text(row.col1) # <<>> /\ Text(row.col2) # <<>> /\ Text(row.col3) # <<>>
           /\ previous = "verb"
        THEN previous
        ELSE g.part_of_speech

\* the vocabulary branch of the row loop
VocabularyRow(row, chapter_number, previous) ==
    LET english_meanings == Text(row.english)
        g == guess_sort_letter_part_of_speech_english(english_meanings, "none")
        part_of_speech_guessed == PartOfSpeechGuessed(row, previous)
        string_col_1 == Strip(Text(row.col1))
        string_col_2 == Strip(Text(row.col2))
        string_col_3 == Strip(Text(row.col3))
        string_to_guess == IF string_col_1 # <<>> THEN string_col_1
                           ELSE IF string_col_2 # <<>> THEN string_col_2
                           ELSE string_col_3
        a == guess_sort_letter_arabic(string_to_guess)
        english_meanings_list == Split(english_meanings, ",")
        raising == {i \in DOMAIN english_meanings_list :
                       guess_sort_letter_part_of_speech_english(
                           Strip(english_meanings_list[i]), part_of_speech_guessed).raised}
        definitions_list == [i \in DOMAIN english_meanings_list |->
                                Definition(english_meanings_list[i], part_of_speech_guessed)]
    IN  IF g.raised \/ raising # {}
        THEN [status |-> "raised_index_error", vocab |-> <<>>, previous |-> previous]
        ELSE IF part_of_speech_guessed = "verb"
        THEN [status |-> "ok",
              vocab |-> <<[chapter_vocab |-> chapter_number,
                           part_of_speech |-> "verb",
                           verb_form |-> Strip(Text(row.verb_form)),
                           arabic_words |-> [perfect |-> string_col_1,
                                             imperfect |-> string_col_2,
                                             verbal_noun |-> string_col_3],
                           arabic_sort_letter |-> a.sort_letter,
                           arabic_sort_start_index |-> a.sort_start_index,
                           english_meanings |-> english_meanings,
                           english_meanings_sort_letter |-> g.sort_letter,
                           english_meanings_sort_start_index |-> g.sort_start_index,
                           source_name |-> "textbook_jones",
                           definitions |-> definitions_list]>>,
              previous |-> part_of_speech_guessed]
        ELSE IF part_of_speech_guessed = "noun"
        THEN [status |-> "ok",
              vocab |-> <<[chapter_vocab |-> chapter_number,
                           part_of_speech |-> "noun",
                           arabic_words |-> [singular |-> string_col_1,
                                             dual |-> string_col_2,
                                             plural |-> string_col_3],
                           arabic_sort_letter |-> a.sort_letter,
                           english_meanings |-> english_meanings,
                           english_meanings_sort_letter |-> g.sort_letter,
                           english_meanings_sort_start_index |-> g.sort_start_index,
                           source_name |-> "textbook_jones",
                           definitions |-> definitions_list]>>,
              previous |-> part_of_speech_guessed]
        ELSE [status |-> "ok", vocab |-> <<>>, previous |-> part_of_speech_guessed]

\* int(row.get("Lesson #")), 0 on ValueError
ChapterNumber(row) == IF ParseInt(row.lesson).ok THEN ParseInt(row.lesson).value ELSE 0

\* row.get("Ex/Voc").lower(), for the discriminators of the model
RowType(row) ==
    CASE row.ex_voc = "Exercise" -> "exercise"
      [] row.ex_voc = "Vocabulary" -> "vocabulary"
      [] OTHER -> row.ex_voc


-----------------------------------------------------------------------------
(* build_json_from_rows as a state machine: one step per row of the loop *)

\* the texts the rows of the model are made of
T_3 == <<"3">>
T_x == <<"x">>
T_1 == <<"1">>
T_2 == <<"2">>
T_B == <<"B">>
T_115 == <<"1", "1", "5">>
T_286 == <<"2", "8", "6">>
T_to_w == <<"t", "o", " ", "w">>
T_w == <<"w">>
T_qualifier == <<"(", "f", ".", ")">>
T_w_to_w == <<"w", ",", " ", "t", "o", " ", "w">>
\* stand-ins for three Arabic words
T_kataba == <<"k">>
T_yaktubu == <<"y">>
T_kitab == <<"b">>

\* exercise_no, sura, verse of the exercise rows
ExerciseFields ==
    {<<T_1, <<>>, <<>>>>, <<T_1, T_2, T_286>>, <<T_1, T_115, T_1>>,
     <<T_1, T_x, T_1>>, <<T_1, T_2, T_x>>, <<T_x, T_2, T_286>>}

ExerciseRows ==
    {[ex_voc |-> "Exercise", lesson |-> l, exercise_no |-> f[1], sura |-> f[2],
      verse |-> f[3], arabic_text |-> T_kataba, col1 |-> NoColumn, col2 |-> NoColumn,
      col3 |-> NoColumn, english |-> NoColumn, verb_form |-> NoColumn] :
        l \in {T_3, T_x}, f \in ExerciseFields}
    \cup
    {[ex_voc |-> "Exercise", lesson |-> l, exercise_no |-> T_B, sura |-> <<>>,
      verse |-> <<>>, arabic_text |-> NoColumn, col1 |-> T_kataba, col2 |-> <<>>,
      col3 |-> T_kitab, english |-> <<>>, verb_form |-> <<>>] : l \in {T_3, T_x}}

\* the three Arabic columns of the vocabulary rows
ArabicColumns ==
    {<<<<>>, <<>>, <<>>>>, <<T_kataba, <<>>, <<>>>>, <<<<>>, <<>>, T_kitab>>,
     <<T_kataba, T_yaktubu, T_kitab>>}

EnglishTexts == {<<>>, <<" ">>, T_to_w, T_w, T_qualifier, T_w_to_w}

VocabularyRows ==
    {[ex_voc |-> "Vocabulary", lesson |-> T_3, exercise_no |-> <<>>, sura |-> <<>>,
      verse |-> <<>>, arabic_text |-> NoColumn, col1 |-> a[1], col2 |-> a[2],
      col3 |-> a[3], english |-> e, verb_form |-> <<>>] :
        a \in ArabicColumns, e \in EnglishTexts}
    \cup
    {[ex_voc |-> "Vocabulary", lesson |-> T_x, exercise_no |-> <<>>, sura |-> <<>>,
      verse |-> <<>>, arabic_text |-> NoColumn, col1 |-> T_kataba, col2 |-> <<>>,
      col3 |-> <<>>, english |-> T_w, verb_form |-> <<>>]}

OtherRows ==
    {[ex_voc |-> "Note", lesson |-> T_3, exercise_no |-> <<>>, sura |-> <<>>,
      verse |-> <<>>, arabic_text |-> NoColumn, col1 |-> <<>>, col2 |-> <<>>,
      col3 |-> <<>>, english |-> T_w, verb_form |-> <<>>]}

RowPool == ExerciseRows \cup VocabularyRows \cup OtherRows

RowsInit ==
    /\ rows \in SeqsUpTo(RowPool, MaxRows)
    /\ row_i = 1
    /\ vocab = <<>>
    /\ exercises_out = <<>>
    /\ part_of_speech_guessed_previous = ""
    /\ rows_pc = "running"

RowsIdle ==
    /\ rows = <<>>
    /\ row_i = 1
    /\ vocab = <<>>
    /\ exercises_out = <<>>
    /\ part_of_speech_guessed_previous = ""
    /\ rows_pc = "idle"

\* the loop body for a row with Ex/Voc "exercise"
ProcessExerciseRow ==
    /\ rows_pc = "running"
    /\ row_i <= Len(rows)
    /\ RowType(rows[row_i]) = "exercise"
    /\ LET r == ExerciseRow(rows[row_i], ChapterNumber(rows[row_i]))
       IN  IF r.status = "ok"
           THEN /\ exercises_out' = exercises_out \o r.exercises
                /\ row_i' = row_i + 1
                /\ UNCHANGED rows_pc
           ELSE /\ rows_pc' = r.status
                /\ UNCHANGED <<exercises_out, row_i>>
    /\ UNCHANGED <<rows, vocab, part_of_speech_guessed_previous>>
    /\ UNCHANGED not_rows_vars

\* the loop body for a row with Ex/Voc "vocabulary"
ProcessVocabularyRow ==
    /\ rows_pc = "running"
    /\ row_i <= Len(rows)
    /\ RowType(rows[row_i]) = "vocabulary"
    /\ LET r == VocabularyRow(rows[row_i], ChapterNumber(rows[row_i]),
                              part_of_speech_guessed_previous)
       IN  IF r.status = "ok"
           THEN /\ vocab' = vocab \o r.vocab
                /\ part_of_speech_guessed_previous' = r.previous
                /\ row_i' = row_i + 1
                /\ UNCHANGED rows_pc
           ELSE /\ rows_pc' = r.status
                /\ UNCHANGED <<vocab, part_of_speech_guessed_previous, row_i>>
    /\ UNCHANGED <<rows, exercises_out>>
    /\ UNCHANGED not_rows_vars

\* the loop body for any other row: continue
SkipRow ==
    /\ rows_pc = "running"
    /\ row_i <= Len(rows)
    /\ RowType(rows[row_i]) \notin {"exercise", "vocabulary"}
    /\ row_i' = row_i + 1
    /\ UNCHANGED <<rows, vocab, exercises_out, part_of_speech_guessed_previous, rows_pc>>
    /\ UNCHANGED not_rows_vars

\* return data
ReturnData ==
    /\ rows_pc = "running"
    /\ row_i > Len(rows)
    /\ rows_pc' = "done"
    /\ UNCHANGED <<rows, row_i, vocab, exercises_out, part_of_speech_guessed_previous>>
    /\ UNCHANGED not_rows_vars

RowsNext ==
    \/ ProcessExerciseRow
    \/ ProcessVocabularyRow
    \/ SkipRow
    \/ ReturnData

-----------------------------------------------------------------------------
(* guess_sort_letter_part_of_speech_english on its own: the argument is any   *)
(* concatenation of at most MaxPieces pieces                                  *)

Pieces == {T_qualifier, <<"(">>, <<"[">>, <<" ">>, <<"t", "o">>, <<"T", "o">>, T_w}

EnglishStrings == {Flatten(ps) : ps \in SeqsUpTo(Pieces, MaxPieces)}

NoResult ==
    [raised |-> FALSE, sort_letter |-> "", sort_start_index |-> -1, part_of_speech |-> ""]

GuessInit ==
    /\ eng_str \in EnglishStrings
    /\ pos \in {"none", "verb", "noun"}
    /\ guess_result = NoResult
    /\ guess_pc = "call"

GuessIdle ==
    /\ eng_str = <<>>
    /\ pos = "none"
    /\ guess_result = NoResult
    /\ guess_pc = "idle"

GuessCall ==
    /\ guess_pc = "call"
    /\ guess_result' = guess_sort_letter_part_of_speech_english(eng_str, pos)
    /\ guess_pc' = IF guess_result'.raised THEN "raised_index_error" ELSE "done"
    /\ UNCHANGED <<eng_str, pos>>
    /\ UNCHANGED not_guess_vars

GuessNext == GuessCall

-----------------------------------------------------------------------------
(* process_textbook_llm_output.py: validate_quran_reference and              *)
(* parse_exercise_line.  A message is the sequence of the pieces of its      *)
(* f-string; "" is the empty sequence.                                       *)

validate_quran_reference_offbyone(surah, ayah) ==
    IF surah < 1 \/ surah > 114
    THEN [valid |-> FALSE,
          msg |-> <<"Chapter ", surah, " is invalid (valid range: ", 1, "-", 114, ")">>]
    ELSE IF ayah < 1 \/ ayah >= QURAN_CHAPTERS[surah]
    THEN [valid |-> FALSE,
          msg |-> <<"Verse ", ayah, " is invalid for chapter ", surah,
                    " (valid range: ", 1, "-", QURAN_CHAPTERS[surah], ")">>]
    ELSE [valid |-> TRUE, msg |-> <<>>]

validate_quran_reference(surah, ayah) ==
    IF surah < 1 \/ surah > 114
    THEN [valid |-> FALSE,
          msg |-> <<"Chapter ", surah, " is invalid (valid range: ", 1, "-", 114, ")">>]
    ELSE IF ayah < 1 \/ ayah > QURAN_CHAPTERS[surah]
    THEN [valid |-> FALSE,
          msg |-> <<"Verse ", ayah, " is invalid for chapter ", surah,
                    " (valid range: ", 1, "-", QURAN_CHAPTERS[surah], ")">>]
    ELSE [valid |-> TRUE, msg |-> <<>>]

\* what parse_exercise_line returns for a line that is no exercise
None == [is_none |-> TRUE]

\* parse_exercise_line(line).  The line is given by what the two regular
\* expressions find in it: whether it is "<digits>. <text with Arabic>", the
\* number, and the [surah:ayah] token if there is one; its text is not modelled.
parse_exercise_line(line, current_page, current_lesson) ==
    IF ~line.is_exercise THEN None
    ELSE LET validation == validate_quran_reference(line.surah, line.ayah)
         IN  [is_none |-> FALSE,
              page_number |-> current_page,
              lesson_number |-> current_lesson,
              exercise_number |-> line.number,
              surah |-> IF line.has_reference THEN line.surah ELSE 0,
              ayah |-> IF line.has_reference THEN line.ayah ELSE 0,
              quranic_reference |-> IF line.has_reference
                                    THEN <<line.surah, line.ayah>> ELSE <<>>,
              validation_warning |-> IF line.has_reference /\ ~validation.valid
                                     THEN validation.msg ELSE <<>>]

NoValidation == [valid |-> FALSE, msg |-> <<"<not called>">>]

ValidateInit ==
    /\ v_surah \in (0 - 1)..MaxSurahInput
    /\ v_ayah \in (0 - 1)..MaxAyahInput
    /\ v_result = NoValidation
    /\ parsed_exercise = None
    /\ v_pc = "input"

ValidateIdle ==
    /\ v_surah = 0
    /\ v_ayah = 0
    /\ v_result = NoValidation
    /\ parsed_exercise = None
    /\ v_pc = "idle"

\* a call validate_quran_reference(v_surah, v_ayah)
Validate ==
    /\ v_pc = "input"
    /\ v_result' = validate_quran_reference(v_surah, v_ayah)
    /\ v_pc' = "validated"
    /\ UNCHANGED <<v_surah, v_ayah, parsed_exercise>>
    /\ UNCHANGED not_validate_vars

\* a call parse_exercise_line(line) in the exercise section of lesson 3, for
\* a line whose reference token, if any, is [v_surah:v_ayah]
ParseExerciseLine ==
    /\ v_pc = "input"
    /\ v_surah >= 0 /\ v_ayah >= 0
    /\ \E is_exercise \in BOOLEAN, has_reference \in BOOLEAN :
          parsed_exercise' =
              parse_exercise_line([is_exercise |-> is_exercise, number |-> 1,
                                   has_reference |-> has_reference,
                                   surah |-> v_surah, ayah |-> v_ayah], 1, 3)
    /\ v_pc' = "parsed"
    /\ UNCHANGED <<v_surah, v_ayah, v_result>>
    /\ UNCHANGED not_validate_vars

ValidateNext ==
    \/ Validate
    \/ ParseExerciseLine

-----------------------------------------------------------------------------
(* arabic-textbook-to-tex-file.py: the two glossary views.  An Arabic letter  *)
(* is written by its Unicode name; Ord is the code point, which is what       *)
(* Python compares strings by.                                                *)

arabic_order ==
    <<"ALEF", "ALEF_HAMZA_BELOW", "ALEF_MADDA", "ALEF_HAMZA_ABOVE", "BEH", "TEH",
      "THEH", "JEEM", "HAH", "KHAH", "DAL", "THAL", "REH", "ZAIN", "SEEN", "SHEEN",
      "SAD", "DAD", "TAH", "ZAH", "AIN", "GHAIN", "FEH", "QAF", "KAF", "LAM",
      "MEEM", "NOON", "HEH", "WAW", "YEH">>

\* ord(c)
Ord(c) ==
    CASE c = " " -> 32 [] c = "(" -> 40 [] c = ")" -> 41 [] c = "," -> 44
      [] c = "." -> 46 [] c = "F" -> 70 [] c = "O" -> 79 [] c = "T" -> 84
      [] c = "W" -> 87 [] c = "[" -> 91 [] c = "f" -> 102 [] c = "o" -> 111
      [] c = "t" -> 116 [] c = "w" -> 119
      [] c = "HAMZA" -> 1569 [] c = "ALEF_MADDA" -> 1570
      [] c = "ALEF_HAMZA_ABOVE" -> 1571 [] c = "WAW_HAMZA" -> 1572
      [] c = "ALEF_HAMZA_BELOW" -> 1573 [] c = "YEH_HAMZA" -> 1574
      [] c = "ALEF" -> 1575 [] c = "BEH" -> 1576 [] c = "TEH_MARBUTA" -> 1577
      [] c = "TEH" -> 1578 [] c = "THEH" -> 1579 [] c = "JEEM" -> 1580
      [] c = "HAH" -> 1581 [] c = "KHAH" -> 1582 [] c = "DAL" -> 1583
      [] c = "THAL" -> 1584 [] c = "REH" -> 1585 [] c = "ZAIN" -> 1586
      [] c = "SEEN" -> 1587 [] c = "SHEEN" -> 1588 [] c = "SAD" -> 1589
      [] c = "DAD" -> 1590 [] c = "TAH" -> 1591 [] c = "ZAH" -> 1592
      [] c = "AIN" -> 1593 [] c = "GHAIN" -> 1594 [] c = "FEH" -> 1601
      [] c = "QAF" -> 1602 [] c = "KAF" -> 1603 [] c = "LAM" -> 1604
      [] c = "MEEM" -> 1605 [] c = "NOON" -> 1606 [] c = "HEH" -> 1607
      [] c = "WAW" -> 1608 [] c = "ALEF_MAKSURA" -> 1609 [] c = "YEH" -> 1610

\* one character of str.upper
UpperChar(c) ==
    CASE c = "t" -> "T"
      [] c = "o" -> "O"
      [] c = "w" -> "W"
      [] c = "f" -> "F"
      [] OTHER -> c

RECURSIVE StrLess(_, _)
\* a < b for two strings
StrLess(a, b) ==
    IF b = <<>> THEN FALSE
    ELSE IF a = <<>> THEN TRUE
    ELSE IF Head(a) # Head(b) THEN Ord(Head(a)) < Ord(Head(b))
    ELSE StrLess(Tail(a), Tail(b))

\* s[k:] for any integer k
PySliceFrom(s, k) ==
    IF k >= 0 THEN SubSeq(s, k + 1, Len(s))
    ELSE SubSeq(s, (IF Len(s) + k > 0 THEN Len(s) + k ELSE 0) + 1, Len(s))

RECURSIVE InsertSorted_tiesfirst(_, _)
InsertSorted_tiesfirst(sorted_rows, x) ==
    IF sorted_rows = <<>> THEN <<x>>
    ELSE IF ~StrLess(Head(sorted_rows).cmp, x.cmp) THEN <<x>> \o sorted_rows
    ELSE <<Head(sorted_rows)>> \o InsertSorted_tiesfirst(Tail(sorted_rows), x)

RECURSIVE InsertSorted(_, _)
\* x put into a sorted list after every row that is not greater
InsertSorted(sorted_rows, x) ==
    IF sorted_rows = <<>> THEN <<x>>
    ELSE IF StrLess(x.cmp, Head(sorted_rows).cmp) THEN <<x>> \o sorted_rows
    ELSE <<Head(sorted_rows)>> \o InsertSorted(Tail(sorted_rows), x)

RECURSIVE SortStable(_)
\* list.sort(key=...): stable, by the cmp field of the rows
SortStable(rows_list) ==
    IF rows_list = <<>> THEN <<>>
    ELSE InsertSorted(SortStable(SubSeq(rows_list, 1, Len(rows_list) - 1)),
                      rows_list[Len(rows_list)])

RECURSIVE SortedLetters(_)
\* sorted(keys) for one-character keys
SortedLetters(keys) ==
    IF keys = {} THEN <<>>
    ELSE LET least == CHOOSE x \in keys : \A y \in keys : Ord(x) <= Ord(y)
         IN  <<least>> \o SortedLetters(keys \ {least})

\* entry.get(key, default)
Get(entry, key, default) == IF key \in DOMAIN entry THEN entry[key] ELSE default

get_arabic_sort_key(entry) ==
    LET arabic_words == Get(entry, "arabic_words", <<>>)
        sort_start == Get(entry, "arabic_sort_start_index", 0)
        sort_word == IF Get(entry, "part_of_speech", "") = "verb"
                     THEN Get(arabic_words, "imperfect", <<>>)
                     ELSE Get(arabic_words, "singular", <<>>)
    IN  IF sort_start < Len(sort_word) THEN PySliceFrom(sort_word, sort_start)
        ELSE sort_word

\* '؀' <= char <= 'ۿ'
IsArabicChar(c) == 1536 <= Ord(c) /\ Ord(c) <= 1791

\* the letters under which no entry is grouped
InvalidLetter(letter) == letter \in {"", "(", ")", " "}

\* the group letter of an entry: its arabic_sort_letter or, when that is
\* invalid, the first Arabic character of its word after a "(...)" prefix
ArabicGroupLetter(entry) ==
    LET sort_letter == Get(entry, "arabic_sort_letter", "")
        arabic_words == Get(entry, "arabic_words", <<>>)
        word == IF Get(entry, "part_of_speech", "") = "verb"
                THEN IF Get(arabic_words, "imperfect", <<>>) # <<>>
                     THEN Get(arabic_words, "imperfect", <<>>)
                     ELSE Get(arabic_words, "perfect", <<>>)
                ELSE Get(arabic_words, "singular", <<>>)
        close_paren == Find(word, ")")
        clean_word == IF word # <<>> /\ Head(word) = "(" /\ close_paren > 0
                      THEN Strip(SliceFrom(word, close_paren + 1))
                      ELSE word
        found == {i \in DOMAIN clean_word : IsArabicChar(clean_word[i])}
    IN  IF ~InvalidLetter(sort_letter) THEN sort_letter
        ELSE IF found # {}
        THEN clean_word[CHOOSE i \in found : \A j \in found : i <= j]
        ELSE sort_letter

\* what the writers put into the file, one record per write
Section(view) == [kind |-> "section", view |-> view]
TableStart == [kind |-> "table_start"]
TableEnd == [kind |-> "end_longtable"]
EndDocument == [kind |-> "end_document"]

\* write_glossary_header(fh, header_letter, language)
write_glossary_header(header_letter, language) ==
    [kind |-> "header", letter |-> header_letter, language |-> language]

\* write_vocabulary_row(fh, entry, specific_definition): the entry is named by
\* its position in the vocabulary, the definition by its position in the
\* entry's definitions, 0 for None
write_vocabulary_row(position, definition) ==
    [kind |-> "row", position |-> position, definition |-> definition]

\* the (entry, sort key) pairs appended to the groups, in vocabulary order
ArabicRows(vocabulary_list) ==
    LET row(i) == [position |-> i, definition |-> 0,
                   letter |-> ArabicGroupLetter(vocabulary_list[i]),
                   cmp |-> get_arabic_sort_key(vocabulary_list[i])]
        all_rows == [i \in DOMAIN vocabulary_list |-> row(i)]
        Kept(r) == ~InvalidLetter(r.letter)
    IN  SelectSeq(all_rows, Kept)

\* grouped[letter] after its sort
SortedGroup(grouped_rows, letter) ==
    LET InGroup(r) == r.letter = letter
    IN  SortStable(SelectSeq(grouped_rows, InGroup))

\* the writes of one group: its header, then its rows
GroupWrites(grouped_rows, letter, language) ==
    LET group == SortedGroup(grouped_rows, letter)
    IN  <<write_glossary_header(letter, language)>>
        \o [k \in DOMAIN group |->
               write_vocabulary_row(group[k].position, group[k].definition)]

\* the keys of grouped
GroupKeys(grouped_rows) == {grouped_rows[i].letter : i \in DOMAIN grouped_rows}

ArabicLetterOrder_codepoint(keys) == SortedLetters(keys)

\* sorted_letters: the canonical letters that have a group, then the others
ArabicLetterOrder(keys) ==
    LET HasGroup(letter) == letter \in keys
    IN  SelectSeq(arabic_order, HasGroup) \o SortedLetters(keys \ Range(arabic_order))

write_glossary_arabic_sorted(vocabulary_list) ==
    IF vocabulary_list = <<>> THEN <<>>
    ELSE LET grouped_rows == ArabicRows(vocabulary_list)
             sorted_letters == ArabicLetterOrder(GroupKeys(grouped_rows))
         IN  <<Section("arabic"), TableStart>>
             \o Flatten([k \in DOMAIN sorted_letters |->
                            GroupWrites(grouped_rows, sorted_letters[k], "arabic")])
             \o <<TableEnd>>

AllEntries_firstonly(vocabulary_list) ==
    [i \in DOMAIN vocabulary_list |->
        IF Get(vocabulary_list[i], "definitions", <<>>) # <<>> THEN <<i, 1>> ELSE <<i, 0>>]

\* all_entries: one (entry, definition) pair per definition, (entry, None) for
\* an entry without definitions
AllEntries(vocabulary_list) ==
    Flatten([i \in DOMAIN vocabulary_list |->
                LET definitions == Get(vocabulary_list[i], "definitions", <<>>)
                IN  IF definitions # <<>>
                    THEN [k \in DOMAIN definitions |-> <<i, k>>]
                    ELSE <<<<i, 0>>>>])

\* sort_key = text[sort_start:] if sort_start < len(text) else text
EnglishSortKey(text, sort_start) ==
    IF sort_start < Len(text) THEN PySliceFrom(text, sort_start) ELSE text

\* the (entry, definition, sort_key) triples appended to the groups
EnglishRows(vocabulary_list) ==
    LET all_entries == AllEntries(vocabulary_list)
        row(p) ==
            LET entry == vocabulary_list[p[1]]
            IN  IF p[2] # 0
                THEN LET definition == entry.definitions[p[2]]
                     IN  [position |-> p[1], definition |-> p[2],
                          letter |-> UpperChar(Get(definition, "english_sort_letter", "")),
                          cmp |-> Lower(EnglishSortKey(
                                      Get(definition, "english_definition", <<>>),
                                      Get(definition, "english_sort_start_index", 0)))]
                ELSE [position |-> p[1], definition |-> 0,
                      letter |-> UpperChar(Get(entry, "english_meanings_sort_letter", "")),
                      cmp |-> Lower(EnglishSortKey(
                                  Get(entry, "english_meanings", <<>>),
                                  Get(entry, "english_meanings_sort_start_index", 0)))]
        all_rows == [k \in DOMAIN all_entries |-> row(all_entries[k])]
        Kept(r) == r.letter # ""
    IN  SelectSeq(all_rows, Kept)

write_glossary_english_sorted(vocabulary_list) ==
    IF vocabulary_list = <<>> THEN <<>>
    ELSE LET grouped_rows == EnglishRows(vocabulary_list)
             sorted_letters == SortedLetters(GroupKeys(grouped_rows))
         IN  <<Section("english"), TableStart>>
             \o Flatten([k \in DOMAIN sorted_letters |->
                            GroupWrites(grouped_rows, sorted_letters[k], "english")])
             \o <<TableEnd>>

\* the Arabic words of the glossary's vocabulary
W_beh_alef == <<"BEH", "ALEF">>
W_beh == <<"BEH">>
W_alef_beh == <<"ALEF", "BEH">>
W_alef_hamza_below == <<"ALEF_HAMZA_BELOW">>
W_hamza == <<"HAMZA">>
W_alef_maksura == <<"ALEF_MAKSURA">>
W_f_beh == <<"(", "f", ".", ")", " ", "BEH">>

\* English texts of the glossary's vocabulary
T_W == <<"W">>
T_W_to_w == <<"W", ",", " ", "t", "o", " ", "w">>
T_to_w_comma == <<"t", "o", " ", "w", ",">>
T_to == <<"t", "o">>
T_wo == <<"w", "o">>
T_f == <<"f">>

\* (Sing. / Perf., Dual / Imperf., English) of the rows the vocabulary is built from
GlossaryRowFields ==
    {<<W_beh_alef, <<>>, T_w>>, <<W_beh_alef, <<>>, T_W>>, <<W_beh, <<>>, T_w>>,
     <<W_alef_beh, <<>>, T_to_w>>, <<W_beh, W_beh_alef, T_to_w>>,
     <<W_alef_hamza_below, <<>>, T_W_to_w>>, <<W_hamza, <<>>, T_to_w_comma>>,
     <<W_alef_maksura, <<>>, T_to>>, <<W_f_beh, <<>>, T_wo>>, <<<<>>, <<>>, T_w>>,
     <<W_alef_beh, <<>>, T_f>>}

\* the entries build_json_from_rows makes of these rows
BuiltEntries ==
    {VocabularyRow([ex_voc |-> "Vocabulary", lesson |-> T_3, exercise_no |-> <<>>,
                    sura |-> <<>>, verse |-> <<>>, arabic_text |-> NoColumn,
                    col1 |-> f[1], col2 |-> f[2], col3 |-> <<>>, english |-> f[3],
                    verb_form |-> <<>>], 3, "").vocab[1] : f \in GlossaryRowFields}

\* entries of a hand-written JSON document: no definitions list
JsonEntries ==
    {[chapter_vocab |-> 3, part_of_speech |-> "noun",
      arabic_words |-> [singular |-> W_beh, dual |-> <<>>, plural |-> <<>>],
      arabic_sort_letter |-> "BEH", english_meanings |-> T_to_w,
      english_meanings_sort_letter |-> l, english_meanings_sort_start_index |-> 3] :
        l \in {"w", ""}}

GlossaryEntries == BuiltEntries \cup JsonEntries

GlossaryInit ==
    /\ glossary_vocabulary \in SeqsUpTo(GlossaryEntries, MaxGlossary)
    /\ fh = <<>>
    /\ glossary_pc = "start"

GlossaryIdle ==
    /\ glossary_vocabulary = <<>>
    /\ fh = <<>>
    /\ glossary_pc = "idle"

\* main: `if vocabulary:` is false
NoGlossary ==
    /\ glossary_pc = "start"
    /\ glossary_vocabulary = <<>>
    /\ fh' = fh \o <<EndDocument>>
    /\ glossary_pc' = "done"
    /\ UNCHANGED glossary_vocabulary
    /\ UNCHANGED not_glossary_vars

WriteGlossaryArabic ==
    /\ glossary_pc = "start"
    /\ glossary_vocabulary # <<>>
    /\ fh' = fh \o write_glossary_arabic_sorted(glossary_vocabulary)
    /\ glossary_pc' = "arabic_written"
    /\ UNCHANGED glossary_vocabulary
    /\ UNCHANGED not_glossary_vars

WriteGlossaryEnglish ==
    /\ glossary_pc = "arabic_written"
    /\ fh' = fh \o write_glossary_english_sorted(glossary_vocabulary) \o <<EndDocument>>
    /\ glossary_pc' = "done"
    /\ UNCHANGED glossary_vocabulary
    /\ UNCHANGED not_glossary_vars

GlossaryNext ==
    \/ NoGlossary
    \/ WriteGlossaryArabic
    \/ WriteGlossaryEnglish

-----------------------------------------------------------------------------
(* arabic-textbook-to-tex-file.py: main.  args are the parsed flags, env says *)
(* which variables of the environment are set, files what is on disk; the two *)
(* counters count the requests sent to the Quran API.                         *)

CliArgs == [json_input : BOOLEAN, no_api : BOOLEAN, output_csv : BOOLEAN]

CliEnv == [CLIENT_ID_LIVE : BOOLEAN, CLIENT_SECRET_LIVE : BOOLEAN,
           END_POINT_LIVE : BOOLEAN, URL_API_LIVE : BOOLEAN]

\* json_exists, input_exists: the named paths exist; input_is_ods: the suffix
\* of input_file; references: the verse keys of the document built from it
CliFiles == [json_exists : BOOLEAN, input_exists : BOOLEAN, input_is_ods : BOOLEAN,
             references : 0..1]

CliInit ==
    /\ args \in CliArgs
    /\ env \in CliEnv
    /\ files \in CliFiles
    /\ api_token_calls = 0
    /\ api_verse_calls = 0
    /\ enriched_json = "none"
    /\ cli_pc = "start"

CliIdle ==
    /\ args = [json_input |-> FALSE, no_api |-> FALSE, output_csv |-> FALSE]
    /\ env = [CLIENT_ID_LIVE |-> FALSE, CLIENT_SECRET_LIVE |-> FALSE,
              END_POINT_LIVE |-> FALSE, URL_API_LIVE |-> FALSE]
    /\ files = [json_exists |-> FALSE, input_exists |-> FALSE, input_is_ods |-> FALSE,
                references |-> 0]
    /\ api_token_calls = 0
    /\ api_verse_calls = 0
    /\ enriched_json = "none"
    /\ cli_pc = "idle"

\* --output-csv: export and exit
ExportCsv ==
    /\ cli_pc = "start"
    /\ args.output_csv
    /\ cli_pc' = IF files.input_exists /\ files.input_is_ods THEN "exit_0" ELSE "exit_1"
    /\ UNCHANGED <<args, env, files, api_token_calls, api_verse_calls, enriched_json>>
    /\ UNCHANGED not_cli_vars

\* the check that some existent file was passed in
CheckInput ==
    /\ cli_pc = "start"
    /\ ~args.output_csv
    /\ cli_pc' = IF args.json_input
                 THEN IF files.json_exists THEN "setup_api" ELSE "exit_1"
                 ELSE IF files.input_exists THEN "setup_api" ELSE "exit_1"
    /\ UNCHANGED <<args, env, files, api_token_calls, api_verse_calls, enriched_json>>
    /\ UNCHANGED not_cli_vars

\* "Setup API info": unless --no-api, a token is requested when the
\* credentials are in the environment; an exception is logged
SetupApi ==
    /\ cli_pc = "setup_api"
    /\ api_token_calls' =
          IF /\ ~args.no_api
             /\ env.CLIENT_ID_LIVE /\ env.CLIENT_SECRET_LIVE /\ env.END_POINT_LIVE
          THEN api_token_calls + 1
          ELSE api_token_calls
    /\ cli_pc' = "decide_source"
    /\ UNCHANGED <<args, env, files, api_verse_calls, enriched_json>>
    /\ UNCHANGED not_cli_vars

\* "Decide data source", with --json-input: the document is loaded
LoadJson ==
    /\ cli_pc = "decide_source"
    /\ args.json_input
    /\ enriched_json' = "loaded"
    /\ cli_pc' = "write_tex"
    /\ UNCHANGED <<args, env, files, api_token_calls, api_verse_calls>>
    /\ UNCHANGED not_cli_vars

\* "Decide data source", without --json-input: the rows are read and built
\* and, unless --no-api or the configuration is missing, enriched by
\* enrich_with_quran_api, which requests a token and fetches each reference
\* or raises
BuildAndEnrich ==
    /\ cli_pc = "decide_source"
    /\ ~args.json_input
    /\ IF ~args.no_api /\ env.CLIENT_ID_LIVE /\ env.URL_API_LIVE
       THEN /\ api_token_calls' = api_token_calls + 1
            /\ \/ /\ api_verse_calls' = api_verse_calls + files.references
                  /\ enriched_json' = "enriched"
                  /\ cli_pc' = "write_tex"
               \/ /\ api_verse_calls' = api_verse_calls
                  /\ enriched_json' = "none"
                  /\ cli_pc' = "raised"
       ELSE /\ enriched_json' = "built"
            /\ cli_pc' = "write_tex"
            /\ UNCHANGED <<api_token_calls, api_verse_calls>>
    /\ UNCHANGED <<args, env, files>>
    /\ UNCHANGED not_cli_vars

\* "Write TeX file from JSON data"
WriteTex ==
    /\ cli_pc = "write_tex"
    /\ cli_pc' = "done"
    /\ UNCHANGED <<args, env, files, api_token_calls, api_verse_calls, enriched_json>>
    /\ UNCHANGED not_cli_vars

CliNext ==
    \/ ExportCsv
    \/ CheckInput
    \/ SetupApi
    \/ LoadJson
    \/ BuildAndEnrich
    \/ WriteTex

-----------------------------------------------------------------------------
(* process_textbook_llm_output.py: the vocabulary lines of the OCR parser.    *)
(* A line is the sequence of its whitespace-separated parts; an Arabic token  *)
(* is a part named ARABIC_n.                                                  *)

ArabicParts == {"ARABIC_1", "ARABIC_2"}

OtherParts == {"(pl.)", "(s.)", "gods", "God"}

\* contains_arabic_text(part)
contains_arabic_text(part) == part \in ArabicParts

\* part[0].islower()
StartsLower(part) == part \in {"gods"}

\* line.find("(s.)"), -1 when the marker is not on the line
IndexLineSng(parts) ==
    IF \E i \in DOMAIN parts : parts[i] = "(s.)"
    THEN CHOOSE i \in DOMAIN parts : parts[i] = "(s.)" ELSE -1

\* re.search(r"\(.*\s?pl\.\s?.*\)", line)
MatchPlural(parts) == \E i \in DOMAIN parts : parts[i] = "(pl.)"

RECURSIVE ScanParts(_, _, _, _, _)
\* the while loop over the parts, from the 1-based index i
ScanParts(parts, i, lesson, vocab_type, acc) ==
    IF i > Len(parts) THEN acc
    ELSE IF contains_arabic_text(parts[i])
    THEN LET taken ==
                 IF acc.english_parts = <<>> \/ Len(acc.english_parts) < 2
                    \/ vocab_type = "idiom"
                 THEN [acc EXCEPT !.arabic_words = Append(@, parts[i])]
                 ELSE [acc EXCEPT !.english_parts = Append(@, parts[i])]
         IN  IF /\ lesson <= 5
                /\ i + 1 <= Len(parts)
                /\ ~contains_arabic_text(parts[i + 1])
                /\ StartsLower(parts[i + 1])
             THEN ScanParts(parts, i + 2, lesson, vocab_type,
                            [taken EXCEPT !.transliterations = Append(@, parts[i + 1])])
             ELSE ScanParts(parts, i + 1, lesson, vocab_type, taken)
    ELSE ScanParts(parts, i + 1, lesson, vocab_type,
                   [acc EXCEPT !.english_parts = Append(@, parts[i])])

\* arabic_words[k] if len(arabic_words) > k else "", for a 0-based k
WordOr(arabic_words, k) == IF Len(arabic_words) > k THEN <<arabic_words[k + 1]>> ELSE <<>>

\* the three columns chosen for a noun line
NounColumns_noplural(arabic_words, headers, parts) ==
    LET first == WordOr(arabic_words, 0)
        only_plural == /\ Len(arabic_words) = 1
                       /\ IndexLineSng(parts) = -1 /\ MatchPlural(parts)
    IN  IF Len(headers) = 1
        THEN IF headers[1] = "SINGULAR" THEN <<first, <<>>, <<>>>>
             ELSE IF headers[1] = "DUAL" THEN <<<<>>, first, <<>>>>
             ELSE IF headers[1] = "PLURAL" THEN <<<<>>, <<>>, first>>
             ELSE <<<<>>, <<>>, <<>>>>
        ELSE IF Len(headers) = 2
        THEN IF only_plural THEN <<<<>>, <<>>, first>>
             ELSE IF Len(arabic_words) > 1 THEN <<first, <<>>, <<arabic_words[2]>>>>
             ELSE <<first, <<>>, <<>>>>
        ELSE IF Len(headers) = 3
        THEN <<first, WordOr(arabic_words, 1), WordOr(arabic_words, 2)>>
        ELSE <<first, <<>>, <<>>>>

NounColumns(arabic_words, headers, parts) ==
    LET first == WordOr(arabic_words, 0)
        only_plural == /\ Len(arabic_words) = 1
                       /\ IndexLineSng(parts) = -1 /\ MatchPlural(parts)
    IN  IF Len(headers) = 1
        THEN IF headers[1] = "SINGULAR" THEN <<first, <<>>, <<>>>>
             ELSE IF headers[1] = "DUAL" THEN <<<<>>, first, <<>>>>
             ELSE IF headers[1] = "PLURAL" THEN <<<<>>, <<>>, first>>
             ELSE <<<<>>, <<>>, <<>>>>
        ELSE IF Len(headers) = 2
        THEN IF only_plural THEN <<<<>>, <<>>, first>>
             ELSE IF Len(arabic_words) > 1 THEN <<first, <<>>, <<arabic_words[2]>>>>
             ELSE <<first, <<>>, <<>>>>
        ELSE IF Len(headers) = 3
        THEN IF only_plural THEN <<<<>>, <<>>, first>>
             ELSE <<first, WordOr(arabic_words, 1), WordOr(arabic_words, 2)>>
        ELSE <<first, <<>>, <<>>>>

\* the words shunted to the English text, after ";; "
Shunted(arabic_words, vocab_type, headers) ==
    (IF Len(arabic_words) > 3
     THEN <<";;">> \o SubSeq(arabic_words, 4, Len(arabic_words)) ELSE <<>>)
    \o (IF vocab_type = "noun" /\ Len(headers) = 2 /\ Len(arabic_words) > 2
        THEN <<";;">> \o SubSeq(arabic_words, 3, Len(arabic_words)) ELSE <<>>)

\* parse_vocabulary_line(line); texts are sequences of parts
parse_vocabulary_line(parts, page, lesson, vocab_type, headers) ==
    IF Len(parts) < 2 \/ ~\E i \in DOMAIN parts : contains_arabic_text(parts[i])
    THEN None
    ELSE LET scanned == ScanParts(parts, 1, lesson, vocab_type,
                                  [arabic_words |-> <<>>, transliterations |-> <<>>,
                                   english_parts |-> <<>>])
             arabic_words == scanned.arabic_words
             columns == IF vocab_type = "verb"
                        THEN <<WordOr(arabic_words, 0), WordOr(arabic_words, 1),
                               WordOr(arabic_words, 2)>>
                        ELSE IF vocab_type = "noun"
                        THEN NounColumns(arabic_words, headers, parts)
                        ELSE <<arabic_words, <<>>, <<>>>>
         IN  IF arabic_words = <<>> \/ vocab_type \notin {"verb", "noun", "idiom"}
             THEN None
             ELSE [is_none |-> FALSE,
                   page_number |-> page,
                   lesson_number |-> lesson,
                   column1 |-> columns[1],
                   column2 |-> columns[2],
                   column3 |-> columns[3],
                   english_translations |->
                       scanned.english_parts \o Shunted(arabic_words, vocab_type, headers),
                   verb_form |-> <<>>,
                   part_of_speech |-> vocab_type,
                   transliterations |-> scanned.transliterations,
                   raw_line |-> parts]

\* the header lines of the vocabulary sections, as their words
HeaderLines ==
    {<<"SINGULAR", "DUAL", "PLURAL">>, <<"SINGULAR", "PLURAL">>, <<"SINGULAR">>,
     <<"PLURAL", "SINGULAR">>, <<"PERFECT", "IMPERFECT", "VERBAL", "NOUN">>,
     <<"Idioms">>, <<"VERBAL", "NOUN">>}

\* re.search of words.*in.*this.*order
HasInOrder(words, pattern) ==
    \E f \in [DOMAIN pattern -> DOMAIN words] :
        /\ \A k \in DOMAIN pattern : words[f[k]] = pattern[k]
        /\ \A k \in DOMAIN pattern : k > 1 => f[k - 1] < f[k]

\* parse_vocabulary_headers(line); <<>> is None
parse_vocabulary_headers(words) ==
    IF HasInOrder(words, <<"PERFECT", "IMPERFECT", "VERBAL", "NOUN">>)
    THEN <<"PERFECT", "IMPERFECT", "VERBAL NOUN">>
    ELSE IF HasInOrder(words, <<"SINGULAR", "DUAL", "PLURAL">>)
    THEN <<"SINGULAR", "DUAL", "PLURAL">>
    ELSE IF HasInOrder(words, <<"SINGULAR", "PLURAL">>)
    THEN <<"SINGULAR", "PLURAL">>
    ELSE IF HasInOrder(words, <<"SINGULAR">>)
    THEN <<"SINGULAR">>
    ELSE IF HasInOrder(words, <<"Idioms">>)
    THEN <<"Idioms">>
    ELSE <<>>

\* the vocabulary type the headers stand for
VocabTypeOf(headers) ==
    IF \E k \in DOMAIN headers : headers[k] = "PERFECT" THEN "verb"
    ELSE IF \E k \in DOMAIN headers : headers[k] = "SINGULAR" THEN "noun"
    ELSE IF \E k \in DOMAIN headers : headers[k] = "Idioms" THEN "idiom"
    ELSE "other"

VocabularyLines == SeqsUpTo(ArabicParts \cup OtherParts, MaxParts)

OcrInit ==
    /\ vocab_line \in VocabularyLines
    /\ self_current_lesson \in {3, 6}
    /\ current_vocab_type = "noun"
    /\ vocabulary_headers = <<>>
    /\ vocab_entry = None
    /\ ocr_pc = "section"

OcrIdle ==
    /\ vocab_line = <<>>
    /\ self_current_lesson = 0
    /\ current_vocab_type = "noun"
    /\ vocabulary_headers = <<>>
    /\ vocab_entry = None
    /\ ocr_pc = "idle"

\* a line of the vocabulary section that may be a header line
ReadHeaderLine ==
    /\ ocr_pc = "section"
    /\ \E words \in HeaderLines :
          LET headers == parse_vocabulary_headers(words)
          IN  IF headers # <<>>
              THEN /\ vocabulary_headers' = headers
                   /\ current_vocab_type' = VocabTypeOf(headers)
              ELSE UNCHANGED <<vocabulary_headers, current_vocab_type>>
    /\ ocr_pc' = "headers_read"
    /\ UNCHANGED <<vocab_line, self_current_lesson, vocab_entry>>
    /\ UNCHANGED not_ocr_vars

\* a line of the vocabulary section that is no header line
ParseVocabularyLine ==
    /\ ocr_pc \in {"section", "headers_read"}
    /\ vocab_entry' = parse_vocabulary_line(vocab_line, 1, self_current_lesson,
                                            current_vocab_type, vocabulary_headers)
    /\ ocr_pc' = "parsed"
    /\ UNCHANGED <<vocab_line, self_current_lesson, current_vocab_type, vocabulary_headers>>
    /\ UNCHANGED not_ocr_vars

OcrNext ==
    \/ ReadHeaderLine
    \/ ParseVocabularyLine

(***************************************************************************)
(* Removing Arabic marks and the word tally                                *)
(* src/tex_utils.py tex_remove_arabic_marks,                               *)
(* src/process_textbook_llm_output.py TextbookProcessor.extract_arabic_words*)
(* A text is a sequence of code points.                                    *)
(***************************************************************************)

\* the list of line 49-50: U+06D6..U+06DC and U+06E0..U+06E8
chars_to_remove == (1750 .. 1756) \cup (1760 .. 1768)

\* c.encode("utf-8"): the bytes of one code point (one, two or three bytes)
Utf8Encode(c) ==
    IF c < 128 THEN <<c>>
    ELSE IF c < 2048 THEN <<192 + (c \div 64), 128 + (c % 64)>>
    ELSE <<224 + (c \div 4096), 128 + ((c \div 64) % 64), 128 + (c % 64)>>

\* bytes.decode("unicode_escape") of bytes without a backslash: every byte
\* becomes the character of the same number (Latin-1)
UnicodeEscapeDecode(bytes) == bytes

\* line 53: chars, flattened by "".join(chars) of line 54
chars ==
    UNION {{UnicodeEscapeDecode(Utf8Encode(c))[i] :
                i \in 1 .. Len(UnicodeEscapeDecode(Utf8Encode(c)))} :
           c \in chars_to_remove}

\* lines 54-56: re.sub("[" + re.escape("".join(chars)) + "]", "", text)
tex_remove_arabic_marks(text) == SelectSeq(text, LAMBDA c : c \notin chars)

\* code points of the texts: BEH, SEEN, two of the listed marks, and the
\* Latin-1 characters U+00DB, U+0096, U+00A0 (no-break space), "a"
CP_BEH == 1576
CP_SEEN == 1587
CP_SMALL_HIGH_SAD_LAM == 1750
CP_SMALL_HIGH_DOTLESS_HEAD == 1761
CP_U_CIRCUMFLEX == 219
CP_NBSP == 160
CP_C1_96 == 150
CP_a == 97

\* \p{Script_Extensions=Arabic}+ of line 324 finds runs of these
ArabicScript == {CP_BEH, CP_SEEN, CP_SMALL_HIGH_SAD_LAM, CP_SMALL_HIGH_DOTLESS_HEAD}

\* the Arabic words a page can contain
WordPool ==
    { <<CP_BEH, CP_SEEN>>,
      <<CP_BEH, CP_SMALL_HIGH_SAD_LAM, CP_SEEN>>,
      <<CP_BEH, CP_SEEN, CP_SMALL_HIGH_DOTLESS_HEAD>>,
      <<CP_SMALL_HIGH_SAD_LAM>> }

\* other texts handed to tex_remove_arabic_marks
TextPool ==
    { <<>>,
      <<CP_a, CP_NBSP, CP_a>>,
      <<CP_U_CIRCUMFLEX, CP_a>>,
      <<CP_a, CP_C1_96>>,
      <<CP_a, CP_BEH, CP_SMALL_HIGH_SAD_LAM>> }

PageNums == {1, 2}

MarksInit ==
    /\ marks_text = <<>>
    /\ marks_result = <<>>
    /\ self_arabic_words = <<>>
    /\ extract_calls = 0
    /\ marks_pc = "ready"

MarksIdle ==
    /\ marks_text = <<>>
    /\ marks_result = <<>>
    /\ self_arabic_words = <<>>
    /\ extract_calls = 0
    /\ marks_pc = "idle"

\* self.arabic_words is a defaultdict: a key that is absent reads as
\* {"count": 0, "pages": set()}
Tally(key) ==
    IF key \in DOMAIN self_arabic_words THEN self_arabic_words[key]
    ELSE [count |-> 0, pages |-> {}]

\* one word found by extract_arabic_words on page page_num (lines 326-331)
ExtractArabicWord ==
    /\ marks_pc \in {"ready", "removed", "counted"}
    /\ extract_calls < MaxExtract
    /\ \E word \in WordPool, page_num \in PageNums :
        LET clean == tex_remove_arabic_marks(word) IN
        /\ marks_text' = word
        /\ marks_result' = clean
        /\ self_arabic_words' =
              IF clean # <<>>
              THEN [k \in DOMAIN self_arabic_words \cup {clean} |->
                        IF k = clean
                        THEN [count |-> Tally(clean).count + 1,
                              pages |-> Tally(clean).pages \cup {page_num}]
                        ELSE self_arabic_words[k]]
              ELSE self_arabic_words
    /\ extract_calls' = extract_calls + 1
    /\ marks_pc' = "counted"
    /\ UNCHANGED not_marks_vars

\* a direct call tex_remove_arabic_marks(text)
RemoveArabicMarks ==
    /\ marks_pc \in {"ready", "removed", "counted"}
    /\ \E text \in TextPool :
        /\ marks_text' = text
        /\ marks_result' = tex_remove_arabic_marks(text)
    /\ marks_pc' = "removed"
    /\ UNCHANGED <<self_arabic_words, extract_calls>>
    /\ UNCHANGED not_marks_vars

MarksNext == ExtractArabicWord \/ RemoveArabicMarks

(***************************************************************************)
(* Enrichment of a document that was enriched before                       *)
(* src/textbook_enrich.py enrich_with_quran_api, called again on the       *)
(* document it returned.                                                   *)
(***************************************************************************)

RerunInit ==
    /\ EnrichInit
    /\ runs = 1
    /\ before_vocabulary = vocabulary
    /\ before_exercises = exercises
    /\ first_cache = <<>>
    /\ first_loop = <<0, 0>>

RerunIdle ==
    /\ runs = 0
    /\ before_vocabulary = <<>>
    /\ before_exercises = <<>>
    /\ first_cache = <<>>
    /\ first_loop = <<0, 0>>

\* enrich_with_quran_api(data, ...) is entered again with the document the
\* run before returned: verse_keys and cache are new and empty, the loop
\* variables ch and vs are unbound, and the requests are counted anew
Reenter ==
    /\ pc = "done"
    /\ ~data_empty
    /\ runs < MaxRuns
    /\ runs' = runs + 1
    /\ before_vocabulary' = vocabulary
    /\ before_exercises' = exercises
    /\ first_cache' = cache
    /\ first_loop' = <<ch, vs>>
    /\ verse_keys' = {}
    /\ cache' = <<>>
    /\ ch' = 0
    /\ vs' = 0
    /\ token_calls' = 0
    /\ verse_calls' = <<>>
    /\ pc' = "start"
    /\ UNCHANGED <<data_empty, vocabulary, exercises, faults>>
    /\ UNCHANGED <<rows_vars, guess_vars, validate_vars, glossary_vars, cli_vars,
                   ocr_vars, marks_vars, json_vars, csv_vars, scan_vars, writer_vars>>

RerunNext == EnrichNext \/ Reenter

(***************************************************************************)
(* Documents whose items carry a quranic_reference string                  *)
(* src/textbook_enrich.py enrich_with_quran_api on the items of            *)
(* src/textbook_data.py (quranic_reference, surah and ayah together) and   *)
(* on items that carry the quranic_reference string alone.                 *)
(***************************************************************************)

\* add_ref(qref), the collection by string that enrich_with_quran_api defines
\* and does not call: int(ch_qref), int(vs_qref) of qref.split(":", 1)
add_ref(keys, qref) ==
    IF qref = <<>> THEN keys ELSE keys \cup {<<qref[1], qref[2]>>}

\* "full": the item has quranic_reference, surah and ayah;
\* "reference_only": it has no surah and no ayah key, item.get(.., 0) reads 0
ItemShapes == {"full", "reference_only"}

WithReference(entry, ref, shape) ==
    [f \in DOMAIN entry \cup {"quranic_reference", "quran_api"} |->
        CASE f = "quranic_reference" -> QuranicReference(ref[1], ref[2])
          [] f = "quran_api" -> "absent"
          [] f = "surah" -> IF shape = "full" THEN ref[1] ELSE 0
          [] f = "ayah" -> IF shape = "full" THEN ref[2] ELSE 0
          [] OTHER -> entry[f]]

QrefInit ==
    /\ data_empty \in BOOLEAN
    /\ \E vrefs \in SeqsUpTo(VocabRefs \X ItemShapes, MaxVocab),
          erefs \in SeqsUpTo(ExerciseRefs \X ItemShapes, MaxEx) :
          /\ vocabulary = IF data_empty THEN <<>>
                          ELSE [i \in DOMAIN vrefs |->
                                   WithReference(VocabEntry(i, vrefs[i][1]),
                                                 vrefs[i][1], vrefs[i][2])]
          /\ exercises = IF data_empty THEN <<>>
                         ELSE [i \in DOMAIN erefs |->
                                  WithReference(ExerciseEntry(i, erefs[i][1]),
                                                erefs[i][1], erefs[i][2])]
    /\ verse_keys = {}
    /\ cache = <<>>
    /\ ch = 0
    /\ vs = 0
    /\ token_calls = 0
    /\ verse_calls = <<>>
    /\ faults = 0
    /\ pc = "start"

(***************************************************************************)
(* write_json and read_json                                                *)
(* src/textbook_enrich.py write_json, read_json                            *)
(* json.dump(data, fh, ensure_ascii=False, indent=2, sort_keys=True) into  *)
(* a file opened with encoding="utf-8", and json.load from such a file.    *)
(* A text is a sequence of code points, a file a sequence of bytes.  A     *)
(* JSON value is a record with its type t and its content v; a dict is the *)
(* sequence of its <<key, value>> pairs in insertion order.                *)
(***************************************************************************)

JValue(type, string, number, boolean, list_items, dict_pairs) ==
    [t |-> type, s |-> string, n |-> number, b |-> boolean,
     items |-> list_items, pairs |-> dict_pairs]

JStr(cs) == JValue("str", cs, 0, FALSE, <<>>, <<>>)
JInt(k) == JValue("int", <<>>, k, FALSE, <<>>, <<>>)
JBool(x) == JValue("bool", <<>>, 0, x, <<>>, <<>>)
JNull == JValue("null", <<>>, 0, FALSE, <<>>, <<>>)
JList(xs) == JValue("list", <<>>, 0, FALSE, xs, <<>>)
JDict(kvs) == JValue("dict", <<>>, 0, FALSE, <<>>, kvs)
JError == JValue("error", <<>>, 0, FALSE, <<>>, <<>>)

\* ord() of the ASCII characters the encoder and the decoder name
\* ("BACKSPACE" and "FORMFEED" stand for \b and \f)
Code(c) ==
    CASE c = "\"" -> 34  [] c = "\\" -> 92 [] c = "/" -> 47
      [] c = "\n" -> 10  [] c = "\r" -> 13 [] c = "\t" -> 9
      [] c = "BACKSPACE" -> 8 [] c = "FORMFEED" -> 12
      [] c = " " -> 32   [] c = "," -> 44  [] c = ":" -> 58 [] c = "-" -> 45
      [] c = "[" -> 91   [] c = "]" -> 93  [] c = "{" -> 123 [] c = "}" -> 125
      [] c = "0" -> 48   [] c = "9" -> 57
      [] c = "a" -> 97   [] c = "b" -> 98  [] c = "e" -> 101 [] c = "f" -> 102
      [] c = "l" -> 108  [] c = "n" -> 110 [] c = "r" -> 114 [] c = "s" -> 115
      [] c = "t" -> 116  [] c = "u" -> 117 [] c = "A" -> 65  [] c = "F" -> 70

Codes(s) == [i \in DOMAIN s |-> Code(s[i])]

RECURSIVE Concat(_)
\* "".join(chunks)
Concat(chunks) ==
    IF chunks = <<>> THEN <<>>
    ELSE IF Len(chunks) = 1 THEN chunks[1]
    ELSE LET half == Len(chunks) \div 2
         IN  Concat(SubSeq(chunks, 1, half)) \o Concat(SubSeq(chunks, half + 1, Len(chunks)))

\* one lower-case hexadecimal digit
HexDigit(d) == IF d < 10 THEN Code("0") + d ELSE Code("a") + (d - 10)

\* ESCAPE_DCT of json.encoder: the replacement of one character matched by
\* ESCAPE, the control characters, the quote and the backslash
EscapeChar_plain(c) == <<c>>

EscapeChar(c) ==
    CASE c = Code("\"") -> Codes(<<"\\", "\"">>)
      [] c = Code("\\") -> Codes(<<"\\", "\\">>)
      [] c = Code("\n") -> Codes(<<"\\", "n">>)
      [] c = Code("\r") -> Codes(<<"\\", "r">>)
      [] c = Code("\t") -> Codes(<<"\\", "t">>)
      [] c = Code("BACKSPACE") -> Codes(<<"\\", "b">>)
      [] c = Code("FORMFEED") -> Codes(<<"\\", "f">>)
      [] c < 32 /\ c \notin {8, 9, 10, 12, 13} ->
            Codes(<<"\\", "u", "0", "0">>) \o <<HexDigit(c \div 16), HexDigit(c % 16)>>
      [] OTHER -> <<c>>

\* py_encode_basestring: ensure_ascii is False, so every other character is
\* written as it is
encode_basestring(s) ==
    <<Code("\"")>> \o Concat([i \in DOMAIN s |-> EscapeChar(s[i])]) \o <<Code("\"")>>

RECURSIVE Decimal(_)
\* the digits of a natural number
Decimal(n) ==
    IF n < 10 THEN <<Code("0") + n>> ELSE Decimal(n \div 10) \o <<Code("0") + (n % 10)>>

\* int.__repr__
IntRepr(n) == IF n < 0 THEN <<Code("-")>> \o Decimal(0 - n) ELSE Decimal(n)

RECURSIVE CodesLess(_, _)
\* a < b for two strings: by code point, a proper prefix first
CodesLess(a, b) ==
    IF b = <<>> THEN FALSE
    ELSE IF a = <<>> THEN TRUE
    ELSE IF Head(a) # Head(b) THEN Head(a) < Head(b)
    ELSE CodesLess(Tail(a), Tail(b))

RECURSIVE InsertPair(_, _)
InsertPair(pair, sorted) ==
    IF sorted = <<>> THEN <<pair>>
    ELSE IF CodesLess(pair[1], Head(sorted)[1]) THEN <<pair>> \o sorted
    ELSE <<Head(sorted)>> \o InsertPair(pair, Tail(sorted))

RECURSIVE SortedItems(_)
\* sorted(dct.items()) of sort_keys=True: the keys of a dict differ, so the
\* values are never compared
SortedItems(pairs) ==
    IF pairs = <<>> THEN <<>>
    ELSE InsertPair(pairs[Len(pairs)], SortedItems(SubSeq(pairs, 1, Len(pairs) - 1)))

\* '\n' + ' ' * (indent * level) with indent=2
NewlineIndent(level) == <<Code("\n")>> \o [i \in 1 .. 2 * level |-> Code(" ")]

RECURSIVE JoinWith(_, _)
\* the chunks, each after the first preceded by sep
JoinWith(chunks, sep) ==
    IF chunks = <<>> THEN <<>>
    ELSE IF Len(chunks) = 1 THEN chunks[1]
    ELSE chunks[1] \o sep \o JoinWith(Tail(chunks), sep)

RECURSIVE iterencode(_, _)
\* _iterencode(o, _current_indent_level), its chunks joined
iterencode(o, level) ==
    CASE o.t = "str" -> encode_basestring(o.s)
      [] o.t = "int" -> IntRepr(o.n)
      [] o.t = "bool" -> IF o.b THEN Codes(<<"t", "r", "u", "e">>)
                         ELSE Codes(<<"f", "a", "l", "s", "e">>)
      [] o.t = "null" -> Codes(<<"n", "u", "l", "l">>)
      [] o.t = "list" ->
            IF o.items = <<>> THEN Codes(<<"[", "]">>)
            ELSE <<Code("[")>> \o NewlineIndent(level + 1)
                 \o JoinWith([i \in DOMAIN o.items |-> iterencode(o.items[i], level + 1)],
                             <<Code(",")>> \o NewlineIndent(level + 1))
                 \o NewlineIndent(level) \o <<Code("]")>>
      [] o.t = "dict" ->
            IF o.pairs = <<>> THEN Codes(<<"{", "}">>)
            ELSE LET items == SortedItems(o.pairs)
                 IN  <<Code("{")>> \o NewlineIndent(level + 1)
                     \o JoinWith([i \in DOMAIN items |->
                                     encode_basestring(items[i][1])
                                     \o Codes(<<":", " ">>)
                                     \o iterencode(items[i][2], level + 1)],
                                 <<Code(",")>> \o NewlineIndent(level + 1))
                     \o NewlineIndent(level) \o <<Code("}")>>

\* the text stream of open(path, "w", encoding="utf-8"): the bytes of a text
Utf8EncodeText(text) == Concat([i \in DOMAIN text |-> Utf8Encode(text[i])])

\* write_json: json.dump(...) and fh.write("\n")
write_json(data) == Utf8EncodeText(iterencode(data, 0) \o <<Code("\n")>>)

\* the code points of a UTF-8 byte sequence; -1 stands for bytes that make
\* the text stream raise UnicodeDecodeError
Utf8DecodeText(bytes) ==
    LET IsContinuation(k) == k \in DOMAIN bytes /\ bytes[k] >= 128 /\ bytes[k] < 192
        starts == SelectSeq([k \in DOMAIN bytes |-> k], LAMBDA k : ~IsContinuation(k))
        NextStart(j) == IF j < Len(starts) THEN starts[j + 1] ELSE Len(bytes) + 1
        DecodeAt(k, following) ==
            LET lead == bytes[k]
            IN  IF lead < 128 /\ following = 0 THEN lead
                ELSE IF lead >= 194 /\ lead < 224 /\ following = 1
                     THEN (lead - 192) * 64 + (bytes[k + 1] - 128)
                ELSE IF lead >= 224 /\ lead < 240 /\ following = 2
                     THEN (lead - 224) * 4096 + (bytes[k + 1] - 128) * 64
                          + (bytes[k + 2] - 128)
                ELSE -1
    IN  IF IsContinuation(1) THEN <<-1>>
        ELSE [j \in DOMAIN starts |-> DecodeAt(starts[j], NextStart(j) - starts[j] - 1)]

\* s[i], or -1 past the end of the text
At(s, i) == IF i \in DOMAIN s THEN s[i] ELSE -1

RECURSIVE SkipWhitespace(_, _)
\* WHITESPACE.match(s, i).end(): over [ \t\n\r]*
SkipWhitespace(s, i) ==
    IF At(s, i) \in {Code(" "), Code("\t"), Code("\n"), Code("\r")}
    THEN SkipWhitespace(s, i + 1) ELSE i

\* int(c, 16) of one hexadecimal digit, -1 for another character
HexVal(c) ==
    IF c >= Code("0") /\ c <= Code("9") THEN c - Code("0")
    ELSE IF c >= Code("a") /\ c <= Code("f") THEN c - Code("a") + 10
    ELSE IF c >= Code("A") /\ c <= Code("F") THEN c - Code("A") + 10
    ELSE -1

\* BACKSLASH of json.decoder: the character an escape letter stands for, -1
\* for an invalid escape
Unescape(esc) ==
    CASE esc = Code("\"") -> Code("\"")
      [] esc = Code("\\") -> Code("\\")
      [] esc = Code("/") -> Code("/")
      [] esc = Code("b") -> Code("BACKSPACE")
      [] esc = Code("f") -> Code("FORMFEED")
      [] esc = Code("n") -> Code("\n")
      [] esc = Code("r") -> Code("\r")
      [] esc = Code("t") -> Code("\t")
      [] OTHER -> -1

Parsed(value, next) == [v |-> value, i |-> next]

RECURSIVE scanstring(_, _, _)
\* py_scanstring(s, end, strict=True) from the character after the opening
\* quote; acc holds the characters read
scanstring(s, i, acc) ==
    LET c == At(s, i)
    IN  IF c = Code("\"") THEN Parsed(JStr(acc), i + 1)
        ELSE IF c < 32 THEN Parsed(JError, i)
        ELSE IF c # Code("\\") THEN scanstring(s, i + 1, Append(acc, c))
        ELSE LET esc == At(s, i + 1)
             IN  IF esc = Code("u")
                 THEN LET h == [k \in 1 .. 4 |-> HexVal(At(s, i + 1 + k))]
                      IN  IF \E k \in 1 .. 4 : h[k] = -1 THEN Parsed(JError, i)
                          ELSE scanstring(s, i + 6,
                                   Append(acc, h[1] * 4096 + h[2] * 256 + h[3] * 16 + h[4]))
                 ELSE IF Unescape(esc) = -1 THEN Parsed(JError, i)
                 ELSE scanstring(s, i + 2, Append(acc, Unescape(esc)))

IsDigit(c) == c >= Code("0") /\ c <= Code("9")

RECURSIVE ScanDigits(_, _, _)
\* \d*: the value of the digits from i on, after the value n
ScanDigits(s, i, n) ==
    IF IsDigit(At(s, i)) THEN ScanDigits(s, i + 1, 10 * n + (At(s, i) - Code("0")))
    ELSE Parsed(n, i)

\* NUMBER_RE (-?(?:0|[1-9]\d*))(\.\d+)?([eE][-+]?\d+)? at i; a number with a
\* fraction or an exponent is a float, which the documents here do not hold
ScanNumber(s, i) ==
    LET neg == At(s, i) = Code("-")
        j == IF neg THEN i + 1 ELSE i
        d == IF At(s, j) = Code("0") THEN Parsed(0, j + 1) ELSE ScanDigits(s, j, 0)
    IN  IF ~IsDigit(At(s, j)) THEN Parsed(JError, i)
        ELSE IF At(s, d.i) \in {46, Code("e"), 69} THEN Parsed(JError, i)
        ELSE Parsed(JInt(IF neg THEN 0 - d.v ELSE d.v), d.i)

\* s[i:i+len(word)] == word
Matches(s, i, word) == \A k \in DOMAIN word : At(s, i + k - 1) = Code(word[k])

RECURSIVE PairsSet(_, _, _)
\* dict(pairs): a key met again keeps its place and takes the later value
PairsSet(pairs, key, value) ==
    IF pairs = <<>> THEN <<<<key, value>>>>
    ELSE IF Head(pairs)[1] = key THEN <<<<key, value>>>> \o Tail(pairs)
    ELSE <<Head(pairs)>> \o PairsSet(Tail(pairs), key, value)

RECURSIVE scan_once(_, _)
RECURSIVE ArrayItems(_, _, _)
RECURSIVE ObjectItems(_, _, _)

\* JSONArray after the first value position: value, then "," or "]"
ArrayItems(s, i, acc) ==
    LET r == scan_once(s, i)
        k == SkipWhitespace(s, r.i)
    IN  IF r.v.t = "error" THEN Parsed(JError, i)
        ELSE IF At(s, k) = Code("]") THEN Parsed(JList(Append(acc, r.v)), k + 1)
        ELSE IF At(s, k) = Code(",")
             THEN ArrayItems(s, SkipWhitespace(s, k + 1), Append(acc, r.v))
        ELSE Parsed(JError, k)

\* JSONObject at the opening quote of a key: key, ":", value, then "," or "}"
ObjectItems(s, i, acc) ==
    LET key == scanstring(s, i + 1, <<>>)
        k == SkipWhitespace(s, key.i)
        r == scan_once(s, SkipWhitespace(s, k + 1))
        m == SkipWhitespace(s, r.i)
        n == SkipWhitespace(s, m + 1)
    IN  IF key.v.t = "error" \/ At(s, k) # Code(":") THEN Parsed(JError, i)
        ELSE IF r.v.t = "error" THEN Parsed(JError, i)
        ELSE IF At(s, m) = Code("}")
             THEN Parsed(JDict(PairsSet(acc, key.v.s, r.v)), m + 1)
        ELSE IF At(s, m) = Code(",") /\ At(s, n) = Code("\"")
             THEN ObjectItems(s, n, PairsSet(acc, key.v.s, r.v))
        ELSE Parsed(JError, m)

\* scan_once(string, idx) of json.scanner
scan_once(s, i) ==
    LET c == At(s, i)
    IN  IF c = Code("\"") THEN scanstring(s, i + 1, <<>>)
        ELSE IF c = Code("{")
             THEN LET j == SkipWhitespace(s, i + 1)
                  IN  IF At(s, j) = Code("}") THEN Parsed(JDict(<<>>), j + 1)
                      ELSE IF At(s, j) = Code("\"") THEN ObjectItems(s, j, <<>>)
                      ELSE Parsed(JError, j)
        ELSE IF c = Code("[")
             THEN LET j == SkipWhitespace(s, i + 1)
                  IN  IF At(s, j) = Code("]") THEN Parsed(JList(<<>>), j + 1)
                      ELSE ArrayItems(s, j, <<>>)
        ELSE IF Matches(s, i, <<"n", "u", "l", "l">>) THEN Parsed(JNull, i + 4)
        ELSE IF Matches(s, i, <<"t", "r", "u", "e">>) THEN Parsed(JBool(TRUE), i + 4)
        ELSE IF Matches(s, i, <<"f", "a", "l", "s", "e">>) THEN Parsed(JBool(FALSE), i + 5)
        ELSE ScanNumber(s, i)

\* read_json: json.load(fh) = JSONDecoder.decode(fh.read()); text after the
\* value other than whitespace is "Extra data"
read_json(bytes) ==
    LET s == Utf8DecodeText(bytes)
        r == scan_once(s, SkipWhitespace(s, 1))
    IN  IF r.v.t = "error" THEN JError
        ELSE IF SkipWhitespace(s, r.i) # Len(s) + 1 THEN JError
        ELSE r.v

\* the code point of the ligature U+FDFA, three bytes in UTF-8
CP_LIGATURE_SALLA == 65018
CP_START_OF_HEADING == 1

\* the string values of the documents: empty, non-ASCII, characters the
\* encoder escapes (quote, backslash, newline, a control character), and a
\* text that already holds the six characters of an escape, \u0628
JsonStrings ==
    { <<>>,
      <<CP_BEH, CP_SEEN, CP_LIGATURE_SALLA>>,
      <<Code("a"), Code("\""), Code("\\"), Code("n"), Code("\n"), CP_START_OF_HEADING>>,
      <<Code("\\"), Code("u"), Code("0"), Code("0") + 6, Code("0") + 2, Code("0") + 8>> }

JsonKeys == { <<Code("b")>>, <<Code("a"), Code("\"")>>, <<CP_BEH>> }

\* the values a key of the document can hold
JsonValues ==
    {JStr(s) : s \in JsonStrings}
    \cup { JInt(0), JInt(-305), JBool(TRUE), JNull, JList(<<>>), JDict(<<>>),
           JList(<<JBool(FALSE), JList(<<JInt(7)>>), JDict(<<>>)>>),
           JDict(<< <<<<Code("b")>>, JNull>>,
                    <<<<Code("a")>>, JList(<<JStr(<<CP_BEH>>)>>)>> >>) }

\* the documents: a dict of at most MaxKeys different keys in any insertion
\* order
JsonDocuments ==
    {JDict([i \in DOMAIN ks |-> <<ks[i], vals[i]>>]) :
        <<ks, vals>> \in
            UNION {{<<a, b>> : a \in {x \in [1 .. n -> JsonKeys] :
                                         \A p, q \in 1 .. n : p # q => x[p] # x[q]},
                               b \in [1 .. n -> JsonValues]} : n \in 0 .. MaxKeys}}

JsonInit ==
    /\ json_doc \in JsonDocuments
    /\ json_file = <<>>
    /\ json_first_file = <<>>
    /\ json_loaded = JNull
    /\ json_pc = "document"

JsonIdle ==
    /\ json_doc = JNull
    /\ json_file = <<>>
    /\ json_first_file = <<>>
    /\ json_loaded = JNull
    /\ json_pc = "idle"

\* write_json(filepath, data): of the document first, of the document read
\* back afterwards
WriteJson ==
    /\ json_pc \in {"document", "read"}
    /\ LET data == IF json_pc = "document" THEN json_doc ELSE json_loaded
       IN  /\ json_file' = write_json(data)
           /\ json_first_file' = IF json_pc = "document" THEN write_json(data)
                                 ELSE json_first_file
    /\ json_pc' = IF json_pc = "document" THEN "written" ELSE "rewritten"
    /\ UNCHANGED <<json_doc, json_loaded>>
    /\ UNCHANGED not_json_vars

\* read_json(filepath) of the file written
ReadJson ==
    /\ json_pc = "written"
    /\ json_loaded' = read_json(json_file)
    /\ json_pc' = "read"
    /\ UNCHANGED <<json_doc, json_file, json_first_file>>
    /\ UNCHANGED not_json_vars

JsonNext == WriteJson \/ ReadJson

(***************************************************************************)
(* read_csv                                                                *)
(* src/textbook_data.py read_csv                                           *)
(* csv_header is the header line of the file, csv_fieldnames is            *)
(* reader.fieldnames; fieldnames[k] of the code is csv_fieldnames[k + 1]   *)
(* here; a file without a header line has fieldnames None, the empty       *)
(* sequence here.                                                          *)
(***************************************************************************)

\* the header of a combined sheet
CombinedHeader ==
    <<"Page Number", "Lesson Number", "Ex/Voc", "Sing. / Perf.", "Dual / Imperf.",
      "Plural / Verbal N.", "English Translations", "Verb Form", "Part of Speech",
      "Exercise Number", "Arabic Text", "Quran Chapter/Surah", "Quran Verse/Ayah">>

\* the header of the exercises file the OCR processor writes
ExerciseHeader ==
    <<"Page Number", "Lesson Number", "Exercise Number", "Arabic Text",
      "Quran Chapter/Surah", "Quran Verse/Ayah", "Warning">>

\* the header of the vocabulary file the OCR processor writes
OcrVocabularyHeader ==
    <<"Page Number", "Lesson Number", "Column 1", "Column 2", "Column 3",
      "English Translations", "Verb Form", "Part of Speech">>

\* the header of the sample file of test_read_csv_and_build_json
TestHeader == <<"Sing. / Perf.", "Dual / Imperf.", "Plural / Verbal N.", "English">>

BaseHeaders == {CombinedHeader, ExerciseHeader, OcrVocabularyHeader, TestHeader}

\* the headers of the files: the first n columns of a base header, with at
\* most one name replaced by another
HeaderPool ==
    UNION {{SubSeq(h, 1, n) : n \in 0 .. (IF Len(h) < MaxCols THEN Len(h) ELSE MaxCols)}
           : h \in BaseHeaders}

ReplacedHeaders ==
    HeaderPool \cup
    UNION {{[h EXCEPT ![k] = "Other"] : k \in DOMAIN h} : h \in HeaderPool}

\* mapping_all_columns_dict
mapping_all_columns_dict(name) ==
    CASE name = "Page Number" -> "Page Number"
      [] name = "Lesson Number" -> "Lesson #"
      [] name = "English Translations" -> "English"
      [] name = "Exercise Number" -> "Exercise #"
      [] name = "Quran Chapter/Surah" -> "Sura"
      [] name = "Quran Verse/Ayah" -> "Verse"
      [] OTHER -> name

\* the outcome of the header test of lines 61-67: the layout found, "none",
\* or the exception an index past the header raises
HeaderTest(fieldnames) ==
    IF fieldnames = <<>> THEN "TypeError"
    ELSE IF Len(fieldnames) < 4 THEN "IndexError"
    ELSE IF fieldnames[4] = "Sing. / Perf."
         THEN IF Len(fieldnames) < 10 THEN "IndexError"
              ELSE IF fieldnames[10] = "Exercise Number" THEN "all"
              ELSE "vocab_only"
    ELSE IF fieldnames[3] = "Exercise Number" THEN "exercise_only"
    ELSE "none"

\* a data row of the file: its number and whether any of its values is
\* non-empty; ex_voc is the value under "Ex/Voc"
CsvLine(i, filled) == [id |-> i, filled |-> filled, ex_voc |-> "as in file"]

\* the loop of lines 78-89 over the data rows
ReadRows(lines, found) ==
    LET kept == SelectSeq(lines, LAMBDA row : row.filled)
    IN  [i \in DOMAIN kept |->
            [kept[i] EXCEPT !.ex_voc =
                CASE found = "exercise_only" -> "Exercise"
                  [] found = "vocab_only" -> "Vocabulary"
                  [] OTHER -> @]]

CsvInit ==
    /\ csv_header \in ReplacedHeaders
    /\ csv_fieldnames = csv_header
    /\ \E filled \in SeqsUpTo(BOOLEAN, MaxCsvRows) :
          csv_lines = [i \in DOMAIN filled |-> CsvLine(i, filled[i])]
    /\ csv_rows = <<>>
    /\ csv_outcome = "not called"
    /\ csv_pc = "file"

CsvIdle ==
    /\ csv_header = <<>>
    /\ csv_fieldnames = <<>>
    /\ csv_lines = <<>>
    /\ csv_rows = <<>>
    /\ csv_outcome = "not called"
    /\ csv_pc = "idle"

\* read_csv(filepath)
ReadCsv ==
    /\ csv_pc = "file"
    /\ LET found == HeaderTest(csv_fieldnames)
       IN  IF found \in {"TypeError", "IndexError"}
           THEN /\ csv_outcome' = found
                /\ UNCHANGED <<csv_fieldnames, csv_rows>>
           ELSE IF found = "none"
           THEN \* the first pass of the loop of line 70 calls exit(1)
                /\ csv_outcome' = "exit(1)"
                /\ UNCHANGED <<csv_fieldnames, csv_rows>>
           ELSE /\ csv_fieldnames' = [i \in DOMAIN csv_fieldnames |->
                                        mapping_all_columns_dict(csv_fieldnames[i])]
                /\ csv_rows' = ReadRows(csv_lines, found)
                /\ csv_outcome' = "returned"
    /\ csv_pc' = "done"
    /\ UNCHANGED <<csv_header, csv_lines>>
    /\ UNCHANGED not_csv_vars

CsvNext == ReadCsv

-----------------------------------------------------------------------------
(* process_textbook_llm_output.py: TextbookProcessor.process_file, one loop   *)
(* iteration per line of the OCR file.  A line is the sequence of its parts;  *)
(* tex_content is not modelled: write_outputs never writes it.                *)

\* NUMBER_WORDS_TO_INTEGERS, the words that occur in the scanned lines
NUMBER_WORDS_TO_INTEGERS == [w \in {"three", "five"} |-> IF w = "three" THEN 3 ELSE 5]

\* word.lower(), for the words of the section lines
WordLower(word) ==
    IF word = "THREE" THEN "three" ELSE IF word = "FIVE" THEN "five" ELSE word

\* int(word) of the digit strings that occur in the scanned lines
DigitStrings == [w \in {"0", "5", "6", "7"} |->
                    IF w = "0" THEN 0 ELSE IF w = "5" THEN 5 ELSE IF w = "6" THEN 6 ELSE 7]

\* convert_written_number(word)
convert_written_number(word) ==
    IF WordLower(word) \in DOMAIN NUMBER_WORDS_TO_INTEGERS
    THEN NUMBER_WORDS_TO_INTEGERS[WordLower(word)]
    ELSE IF word \in DOMAIN DigitStrings THEN DigitStrings[word]
    ELSE 0

\* re.match(construct_section_match_pattern(section_type), line, re.IGNORECASE)
SectionMatch(section_type, line) ==
    /\ Len(line) = 2
    /\ line[1] = section_type
    /\ \/ WordLower(line[2]) \in DOMAIN NUMBER_WORDS_TO_INTEGERS
       \/ line[2] \in DOMAIN DigitStrings

\* detect_vocabulary_section(line); -1 is None
detect_vocabulary_section(line) ==
    IF SectionMatch("VOCABULARY", line) THEN convert_written_number(line[2]) ELSE -1

\* detect_exercise_section(line); -1 is None
detect_exercise_section(line) ==
    IF SectionMatch("EXERCISE", line) THEN convert_written_number(line[2]) ELSE -1

\* the truth value of an Optional[int]: None and 0 are false
Truthy(number) == number \notin {-1, 0}

\* parse_metadata_line(line); -1 is None
parse_metadata_line(line, page) ==
    IF /\ Len(line) >= 6
       /\ SubSeq(line, 1, 3) = <<"###", "START", "FILE">>
       /\ SubSeq(line, 5, 6) = <<"Extracted", "Page">>
    THEN IF Len(line) >= 7 /\ line[7] \in DOMAIN DigitStrings THEN DigitStrings[line[7]]
         ELSE IF Len(line) = 6 THEN page + 1
         ELSE -1
    ELSE -1

\* detect_lesson_start(line); -1 is None
detect_lesson_start(line) ==
    IF /\ Len(line) >= 3
       /\ SubSeq(line, 1, 2) = <<"##", "CHAPTER">>
       /\ line[3] \in DOMAIN DigitStrings
    THEN DigitStrings[line[3]]
    ELSE -1

\* len(part), for the parts of the scanned lines
PartLen(part) ==
    CASE part \in {"5", "6", "7", "0"} -> 1
      [] part \in {"##", "1,", "1."} -> 2
      [] part \in {"###", "God", "the"} -> 3
      [] part \in {"FILE", "Page", "FIVE", "NOUN"} -> 4
      [] part \in {"START", "THREE"} -> 5
      [] part \in {"VERBAL", "ARABIC_1", "ARABIC_2"} -> 6
      [] part \in {"CHAPTER", "PERFECT", "[2:255]"} -> 7
      [] part \in {"EXERCISE"} -> 8
      [] part \in {"Extracted", "IMPERFECT", "Translate", "following"} -> 9
      [] OTHER -> 10

RECURSIVE LineLen(_)
\* len(line.strip()): the parts and one space between two parts
LineLen(line) ==
    IF line = <<>> THEN 0
    ELSE PartLen(line[1]) + (IF Len(line) > 1 THEN 1 + LineLen(Tail(line)) ELSE 0)

\* what the regular expressions of parse_exercise_line find in the line
ExerciseFacts(line) ==
    [is_exercise |-> /\ Len(line) >= 2
                     /\ line[1] = "1."
                     /\ \E k \in DOMAIN line : contains_arabic_text(line[k]),
     number |-> 1,
     has_reference |-> \E k \in DOMAIN line : line[k] = "[2:255]",
     surah |-> 2,
     ayah |-> 255]

\* lines 726-727: the line that ends the exercise section
LeavesExerciseSection(line) ==
    /\ line # <<>>
    /\ line[1] # "1."
    /\ line[1] # "###"
    /\ ~\E k \in DOMAIN line : contains_arabic_text(line[k])
    /\ LineLen(line) > 10

\* extract_arabic_words(line, page_num): the count and the pages of each word
extract_arabic_words(words, line, page_num) ==
    [w \in DOMAIN words |->
        LET found == Cardinality({k \in DOMAIN line : line[k] = w})
        IN  IF found = 0 THEN words[w]
            ELSE [count |-> words[w].count + found,
                  pages |-> words[w].pages \cup {page_num}]]

\* the state of a TextbookProcessor after __init__
NewProcessor ==
    [in_vocabulary_section |-> FALSE,
     in_exercise_section |-> FALSE,
     current_page |-> 0,
     current_lesson |-> 0,
     vocabulary_headers |-> <<>>,
     current_vocab_type |-> "noun",
     vocabulary_data |-> <<>>,
     exercises_data |-> <<>>,
     arabic_words |-> [w \in ArabicParts |-> [count |-> 0, pages |-> {}]]]

\* lines 731-734: regular content, after the test for the end of the exercises
RegularContent(self, line) ==
    LET left == [self EXCEPT !.in_exercise_section =
                     IF self.in_exercise_section /\ LeavesExerciseSection(line)
                     THEN FALSE ELSE @]
    IN  IF line # <<>> /\ line[1] # "###"
        THEN [left EXCEPT !.arabic_words =
                              extract_arabic_words(@, line, self.current_page)]
        ELSE left

\* lines 708-729: a line of the exercise section
ExerciseSectionLine(self, line) ==
    LET exercise_data == parse_exercise_line(ExerciseFacts(line), self.current_page,
                                             self.current_lesson)
    IN  IF self.in_exercise_section /\ ~exercise_data.is_none
        THEN [self EXCEPT !.exercises_data = Append(@, exercise_data)]
        ELSE RegularContent(self, line)

\* lines 682-706: a line of the vocabulary section
VocabularySectionLine(self, line) ==
    LET headers == parse_vocabulary_headers(line)
        entry == parse_vocabulary_line(line, self.current_page, self.current_lesson,
                                       self.current_vocab_type, self.vocabulary_headers)
    IN  IF ~self.in_vocabulary_section THEN ExerciseSectionLine(self, line)
        ELSE IF headers # <<>>
        THEN [self EXCEPT !.vocabulary_headers = headers,
                          !.current_vocab_type = VocabTypeOf(headers)]
        ELSE IF ~entry.is_none
        THEN [self EXCEPT !.vocabulary_data = Append(@, entry)]
        ELSE ExerciseSectionLine(self, line)

\* lines 629-765: one iteration of the loop of process_file
process_line(self, line) ==
    LET page_num == parse_metadata_line(line, self.current_page)
        lesson == detect_lesson_start(line)
    IN  IF page_num # -1
        THEN [self EXCEPT !.current_page = page_num]
        ELSE IF lesson # -1
        THEN [self EXCEPT !.current_lesson = lesson,
                          !.in_vocabulary_section = FALSE,
                          !.in_exercise_section = FALSE]
        ELSE IF /\ ~self.in_vocabulary_section /\ ~self.in_exercise_section
                /\ Truthy(detect_vocabulary_section(line))
        THEN [self EXCEPT !.in_vocabulary_section = TRUE,
                          !.in_exercise_section = FALSE]
        ELSE IF self.in_vocabulary_section /\ Truthy(detect_exercise_section(line))
        THEN [self EXCEPT !.in_exercise_section = TRUE,
                          !.in_vocabulary_section = FALSE]
        ELSE VocabularySectionLine(self, line)

\* the lines of the OCR file
ScanLinePool ==
    {<<"###", "START", "FILE", "1,", "Extracted", "Page", "7">>,
     <<"##", "CHAPTER", "6">>,
     <<"VOCABULARY", "FIVE">>,
     <<"EXERCISE", "5">>,
     <<"EXERCISE", "THREE">>,
     <<"PERFECT", "IMPERFECT", "VERBAL", "NOUN">>,
     <<"ARABIC_1", "ARABIC_2", "God">>,
     <<"1.", "ARABIC_1", "[2:255]">>,
     <<"Translate", "the", "following">>}

\* the processor as the variables hold it
Processor ==
    [in_vocabulary_section |-> in_vocabulary_section,
     in_exercise_section |-> in_exercise_section,
     current_page |-> p_current_page,
     current_lesson |-> p_current_lesson,
     vocabulary_headers |-> p_vocabulary_headers,
     current_vocab_type |-> p_current_vocab_type,
     vocabulary_data |-> vocabulary_data,
     exercises_data |-> exercises_data,
     arabic_words |-> p_arabic_words]

ScanInit ==
    /\ in_vocabulary_section = NewProcessor.in_vocabulary_section
    /\ in_exercise_section = NewProcessor.in_exercise_section
    /\ p_current_page = NewProcessor.current_page
    /\ p_current_lesson = NewProcessor.current_lesson
    /\ p_vocabulary_headers = NewProcessor.vocabulary_headers
    /\ p_current_vocab_type = NewProcessor.current_vocab_type
    /\ vocabulary_data = NewProcessor.vocabulary_data
    /\ exercises_data = NewProcessor.exercises_data
    /\ p_arabic_words = NewProcessor.arabic_words
    /\ scan_lines = <<>>

ScanIdle == ScanInit

\* the next line of the file is read and processed
ProcessLine ==
    /\ Len(scan_lines) < MaxLines
    /\ \E line \in ScanLinePool :
          LET self == process_line(Processor, line)
          IN  /\ in_vocabulary_section' = self.in_vocabulary_section
              /\ in_exercise_section' = self.in_exercise_section
              /\ p_current_page' = self.current_page
              /\ p_current_lesson' = self.current_lesson
              /\ p_vocabulary_headers' = self.vocabulary_headers
              /\ p_current_vocab_type' = self.current_vocab_type
              /\ vocabulary_data' = self.vocabulary_data
              /\ exercises_data' = self.exercises_data
              /\ p_arabic_words' = self.arabic_words
              /\ scan_lines' = Append(scan_lines, line)
    /\ UNCHANGED not_scan_vars

ScanNext == ProcessLine

-----------------------------------------------------------------------------
(* build_json_from_rows on runs of rows of mixed kinds *)

\* the rows of the runs: a verb, a noun with three forms, a noun with one
\* form, an exercise and a row that is skipped
SmoothingRows ==
    {r \in VocabularyRows :
        /\ r.lesson = T_3
        /\ r.english \in {T_to_w, T_w}
        /\ <<r.col1, r.col2, r.col3>> \in {<<T_kataba, T_yaktubu, T_kitab>>,
                                            <<T_kataba, <<>>, <<>>>>}
        /\ (r.english = T_to_w => r.col2 # <<>>)}
    \cup {r \in ExerciseRows : r.lesson = T_3 /\ r.exercise_no = T_1 /\ r.sura = T_2}
    \cup OtherRows

SmoothingInit ==
    /\ rows \in SeqsUpTo(SmoothingRows, MaxSmoothingRows)
    /\ row_i = 1
    /\ vocab = <<>>
    /\ exercises_out = <<>>
    /\ part_of_speech_guessed_previous = ""
    /\ rows_pc = "running"

-----------------------------------------------------------------------------
(* guess_sort_letter_part_of_speech_english on texts that begin with a        *)
(* qualifier in parentheses or in square brackets                             *)

T_bracketed == <<"[", "f", ".", "]">>

QualifierPieces == {T_qualifier, T_bracketed, <<" ">>, <<"t", "o">>, T_w}

QualifiedStrings == {Flatten(ps) : ps \in SeqsUpTo(QualifierPieces, MaxQualifierPieces)}

QualifierInit ==
    /\ eng_str \in QualifiedStrings
    /\ pos \in {"none", "verb", "noun"}
    /\ guess_result = NoResult
    /\ guess_pc = "call"

-----------------------------------------------------------------------------
(* build_json_from_rows on vocabulary rows whose English text begins with a   *)
(* qualifier or with whitespace                                               *)

T_qualifier_w == T_qualifier \o <<" ">> \o T_w
T_qualifier_to_w == T_qualifier \o <<" ">> \o T_to_w
T_space_w == <<" ">> \o T_w
T_w_qualifier_w == T_w \o <<",", " ">> \o T_qualifier_w

StoredIndexRows ==
    {[ex_voc |-> "Vocabulary", lesson |-> T_3, exercise_no |-> <<>>, sura |-> <<>>,
      verse |-> <<>>, arabic_text |-> NoColumn, col1 |-> T_kataba, col2 |-> <<>>,
      col3 |-> <<>>, english |-> e, verb_form |-> <<>>] :
        e \in {T_w, T_to_w, T_qualifier_w, T_qualifier_to_w, T_space_w, T_w_qualifier_w}}
    \cup {r \in ExerciseRows : r.lesson = T_3 /\ r.exercise_no = T_1 /\ r.verse = T_286}
    \cup OtherRows

StoredIndexInit ==
    /\ rows \in SeqsUpTo(StoredIndexRows, MaxStoredIndexRows)
    /\ row_i = 1
    /\ vocab = <<>>
    /\ exercises_out = <<>>
    /\ part_of_speech_guessed_previous = ""
    /\ rows_pc = "running"

-----------------------------------------------------------------------------
(* arabic-textbook-to-tex-file.py: write_exercises_by_chapter.  What is       *)
(* written to fh is the sequence of the chapter headings and of the items;    *)
(* an item is named by the position of its exercise in data_json.             *)

\* the exercises of the canonical document, as build_json_from_rows makes them
WrittenExercises ==
    [exercise_chapter : {0, 3, 4},
     exercise_number : {1, 2},
     exercise_text : {<<>>, <<" ">>, T_kataba},
     quranic_reference : {<<>>, <<2, 286>>}]

\* the keys of the dict chapters: `if chapter:` leaves out 0
ChapterKeys(exs) == {exs[i].exercise_chapter : i \in DOMAIN exs} \ {0}

RECURSIVE SortedKeys(_)
\* sorted(chapters.keys())
SortedKeys(keys) ==
    IF keys = {} THEN <<>>
    ELSE LET least == CHOOSE k \in keys : \A other \in keys : k <= other
         IN  <<least>> \o SortedKeys(keys \ {least})

\* chapters[chapter]: the positions of its exercises, in the order of the list
ChapterList(exs, chapter) ==
    SelectSeq([i \in DOMAIN exs |-> i], LAMBDA i : exs[i].exercise_chapter = chapter)

RECURSIVE InsertByNumber(_, _, _)
\* the position x put after every position whose exercise_number is not greater
InsertByNumber(exs, sorted_list, x) ==
    IF sorted_list = <<>> THEN <<x>>
    ELSE IF exs[x].exercise_number < exs[Head(sorted_list)].exercise_number
    THEN <<x>> \o sorted_list
    ELSE <<Head(sorted_list)>> \o InsertByNumber(exs, Tail(sorted_list), x)

RECURSIVE SortedByNumber(_, _)
\* sorted(chapters[chapter], key=exercise_number): stable
SortedByNumber(exs, list) ==
    IF list = <<>> THEN <<>>
    ELSE InsertByNumber(exs, SortedByNumber(exs, SubSeq(list, 1, Len(list) - 1)),
                        list[Len(list)])

\* lines 181-185: the exercise has text or a reference
HasItemContent(exercise) ==
    Strip(exercise.exercise_text) # <<>> \/ exercise.quranic_reference # <<>>

\* what is written for one chapter: the heading, then the items
ChapterOutput(exs, chapter) ==
    LET chapter_exercises == SortedByNumber(exs, ChapterList(exs, chapter))
        written == SelectSeq(chapter_exercises, LAMBDA i : HasItemContent(exs[i]))
    IN  <<[kind |-> "chapter", chapter |-> chapter, exercise |-> 0]>>
        \o [n \in DOMAIN written |->
               [kind |-> "item", chapter |-> chapter, exercise |-> written[n]]]

RECURSIVE ChaptersOutput(_, _)
\* the loop over sorted(chapters.keys())
ChaptersOutput(exs, keys) ==
    IF keys = <<>> THEN <<>>
    ELSE ChapterOutput(exs, Head(keys)) \o ChaptersOutput(exs, Tail(keys))

\* write_exercises_by_chapter(fh, data_json): what it writes
write_exercises_by_chapter(exs) ==
    IF exs = <<>> THEN <<>> ELSE ChaptersOutput(exs, SortedKeys(ChapterKeys(exs)))

WriterInit ==
    /\ writer_exercises \in SeqsUpTo(WrittenExercises, MaxWrittenExercises)
    /\ writer_fh = <<>>
    /\ writer_pc = "call"

WriterIdle ==
    /\ writer_exercises = <<>>
    /\ writer_fh = <<>>
    /\ writer_pc = "idle"

WriteExercisesByChapter ==
    /\ writer_pc = "call"
    /\ writer_fh' = writer_fh \o write_exercises_by_chapter(writer_exercises)
    /\ writer_pc' = "done"
    /\ UNCHANGED writer_exercises
    /\ UNCHANGED not_writer_vars

WriterNext == WriteExercisesByChapter

-----------------------------------------------------------------------------
(* The specifications *)

Init == EnrichInit /\ RowsIdle /\ GuessIdle /\ ValidateIdle /\ GlossaryIdle /\ CliIdle /\ OcrIdle /\ MarksIdle /\ RerunIdle /\ JsonIdle /\ CsvIdle /\ ScanIdle /\ WriterIdle

Next == EnrichNext

\* enrich_with_quran_api
Spec == Init /\ [][Next]_vars

InitRows == RowsInit /\ EnrichIdle /\ GuessIdle /\ ValidateIdle /\ GlossaryIdle /\ CliIdle /\ OcrIdle /\ MarksIdle /\ RerunIdle /\ JsonIdle /\ CsvIdle /\ ScanIdle /\ WriterIdle

\* build_json_from_rows
SpecRows == InitRows /\ [][RowsNext]_vars

InitGuess == GuessInit /\ EnrichIdle /\ RowsIdle /\ ValidateIdle /\ GlossaryIdle /\ CliIdle /\ OcrIdle /\ MarksIdle /\ RerunIdle /\ JsonIdle /\ CsvIdle /\ ScanIdle /\ WriterIdle

\* guess_sort_letter_part_of_speech_english
SpecGuess == InitGuess /\ [][GuessNext]_vars

InitValidate == ValidateInit /\ EnrichIdle /\ RowsIdle /\ GuessIdle /\ GlossaryIdle /\ CliIdle /\ OcrIdle /\ MarksIdle /\ RerunIdle /\ JsonIdle /\ CsvIdle /\ ScanIdle /\ WriterIdle

\* validate_quran_reference and parse_exercise_line
SpecValidate == InitValidate /\ [][ValidateNext]_vars

InitGlossary == GlossaryInit /\ EnrichIdle /\ RowsIdle /\ GuessIdle /\ ValidateIdle /\ CliIdle /\ OcrIdle /\ MarksIdle /\ RerunIdle /\ JsonIdle /\ CsvIdle /\ ScanIdle /\ WriterIdle

SpecGlossary == InitGlossary /\ [][GlossaryNext]_vars

InitCli == CliInit /\ EnrichIdle /\ RowsIdle /\ GuessIdle /\ ValidateIdle /\ GlossaryIdle /\ OcrIdle /\ MarksIdle /\ RerunIdle /\ JsonIdle /\ CsvIdle /\ ScanIdle /\ WriterIdle

SpecCli == InitCli /\ [][CliNext]_vars

InitOcr == OcrInit /\ EnrichIdle /\ RowsIdle /\ GuessIdle /\ ValidateIdle /\ GlossaryIdle /\ CliIdle /\ MarksIdle /\ RerunIdle /\ JsonIdle /\ CsvIdle /\ ScanIdle /\ WriterIdle

SpecOcr == InitOcr /\ [][OcrNext]_vars

InitMarks == MarksInit /\ EnrichIdle /\ RowsIdle /\ GuessIdle /\ ValidateIdle /\ GlossaryIdle /\ CliIdle /\ OcrIdle /\ RerunIdle /\ JsonIdle /\ CsvIdle /\ ScanIdle /\ WriterIdle

SpecMarks == InitMarks /\ [][MarksNext]_vars

InitRerun == RerunInit /\ RowsIdle /\ GuessIdle /\ ValidateIdle /\ GlossaryIdle /\ CliIdle /\ OcrIdle /\ MarksIdle /\ JsonIdle /\ CsvIdle /\ ScanIdle /\ WriterIdle

SpecRerun == InitRerun /\ [][RerunNext]_vars

InitQref == QrefInit /\ RowsIdle /\ GuessIdle /\ ValidateIdle /\ GlossaryIdle /\ CliIdle /\ OcrIdle /\ MarksIdle /\ RerunIdle /\ JsonIdle /\ CsvIdle /\ ScanIdle /\ WriterIdle

SpecQref == InitQref /\ [][EnrichNext]_vars

InitJson == JsonInit /\ EnrichIdle /\ RowsIdle /\ GuessIdle /\ ValidateIdle /\ GlossaryIdle /\ CliIdle /\ OcrIdle /\ MarksIdle /\ RerunIdle /\ CsvIdle /\ ScanIdle /\ WriterIdle

SpecJson == InitJson /\ [][JsonNext]_vars

InitCsv == CsvInit /\ EnrichIdle /\ RowsIdle /\ GuessIdle /\ ValidateIdle /\ GlossaryIdle /\ CliIdle /\ OcrIdle /\ MarksIdle /\ RerunIdle /\ JsonIdle /\ ScanIdle /\ WriterIdle

SpecCsv == InitCsv /\ [][CsvNext]_vars

InitScan == ScanInit /\ EnrichIdle /\ RowsIdle /\ GuessIdle /\ ValidateIdle /\ GlossaryIdle /\ CliIdle /\ OcrIdle /\ MarksIdle /\ RerunIdle /\ JsonIdle /\ CsvIdle /\ WriterIdle

SpecScan == InitScan /\ [][ScanNext]_vars

InitSmoothing == SmoothingInit /\ EnrichIdle /\ GuessIdle /\ ValidateIdle /\ GlossaryIdle /\ CliIdle /\ OcrIdle /\ MarksIdle /\ RerunIdle /\ JsonIdle /\ CsvIdle /\ ScanIdle /\ WriterIdle

SpecSmoothing == InitSmoothing /\ [][RowsNext]_vars

InitQualifier == QualifierInit /\ EnrichIdle /\ RowsIdle /\ ValidateIdle /\ GlossaryIdle /\ CliIdle /\ OcrIdle /\ MarksIdle /\ RerunIdle /\ JsonIdle /\ CsvIdle /\ ScanIdle /\ WriterIdle

SpecQualifier == InitQualifier /\ [][GuessNext]_vars

InitStoredIndex == StoredIndexInit /\ EnrichIdle /\ GuessIdle /\ ValidateIdle /\ GlossaryIdle /\ CliIdle /\ OcrIdle /\ MarksIdle /\ RerunIdle /\ JsonIdle /\ CsvIdle /\ ScanIdle /\ WriterIdle

SpecStoredIndex == InitStoredIndex /\ [][RowsNext]_vars

InitWriter == WriterInit /\ EnrichIdle /\ RowsIdle /\ GuessIdle /\ ValidateIdle /\ GlossaryIdle /\ CliIdle /\ OcrIdle /\ MarksIdle /\ RerunIdle /\ JsonIdle /\ CsvIdle /\ ScanIdle

SpecWriter == InitWriter /\ [][WriterNext]_vars

-----------------------------------------------------------------------------
(* Properties of enrich_with_quran_api *)

NonZero(item) == item.surah # 0 /\ item.ayah # 0

KeyOf(item) == <<item.surah, item.ayah>>

\* the pairs of the context lines of an exercise, in order
ContextPairs(e) == [k \in DOMAIN e.context_lines |-> KeyOf(e.context_lines[k])]

\* every non-zero pair a vocabulary entry, an exercise or a context line bears
ReferencedKeys ==
    {KeyOf(vocabulary[i]) : i \in {x \in DOMAIN vocabulary : NonZero(vocabulary[x])}}
    \cup {KeyOf(exercises[j]) : j \in {x \in DOMAIN exercises : NonZero(exercises[x])}}
    \cup UNION {{p \in Range(ContextPairs(exercises[j])) : p[1] # 0 /\ p[2] # 0} :
                j \in DOMAIN exercises}

\* the fetch loop has run to its end
FetchPhaseOver == pc \in {"done", "raised_attach"}

HasContent(r) ==
    /\ r.kind = "object"
    /\ r.has_verse
    /\ r.text_indopak \/ r.text_uthmani \/ r.text_imlaei \/ r.translations # <<>>

\* C2 as stated: after enrich_with_quran_api returns, every vocabulary entry
\* and every exercise entry with a non-zero surah and ayah has a non-empty
\* quranic_sources list.
C2_AllReferencingEntriesHaveSources ==
    pc = "done" =>
        /\ \A i \in DOMAIN vocabulary :
              NonZero(vocabulary[i]) => vocabulary[i].quranic_sources # <<>>
        /\ \A j \in DOMAIN exercises :
              NonZero(exercises[j]) => exercises[j].quranic_sources # <<>>

\* C2 amended: after enrich_with_quran_api returns, every vocabulary entry and
\* every exercise entry with a non-zero surah and ayah whose fetched response
\* carries a verse payload with at least one non-empty text variant or one
\* translation has a non-empty quranic_sources list.
C2_EntriesWithPayloadHaveSources ==
    pc = "done" =>
        /\ \A i \in DOMAIN vocabulary :
              (NonZero(vocabulary[i]) /\ HasContent(cache[KeyOf(vocabulary[i])]))
                  => vocabulary[i].quranic_sources # <<>>
        /\ \A j \in DOMAIN exercises :
              (NonZero(exercises[j]) /\ HasContent(cache[KeyOf(exercises[j])]))
                  => exercises[j].quranic_sources # <<>>

\* a vocabulary entry whose response had the uthmani text only got one source,
\* an exercise with a full response got six
C2_Witness ==
    /\ pc = "done"
    /\ \E i \in DOMAIN vocabulary :
          /\ NonZero(vocabulary[i])
          /\ cache[KeyOf(vocabulary[i])] = UthmaniOnly
          /\ Len(vocabulary[i].quranic_sources) = 1
    /\ \E j \in DOMAIN exercises :
          /\ NonZero(exercises[j])
          /\ cache[KeyOf(exercises[j])] = FullVerse
          /\ Len(exercises[j].quranic_sources) = 6

\* the fetch of key failed: the response has no verse payload
NoPayload(key) ==
    /\ key \in DOMAIN cache
    /\ cache[key].kind = "null" \/ ~cache[key].has_verse

\* C3: a failed verse fetch (the call raises, or the response has no verse
\* payload) does not abort enrichment; the entries of that key stay without
\* sources and the entries of every other fetched key get theirs.
C3_FailedFetchDoesNotAbort ==
    /\ pc \notin {"raised_fetch", "raised_attach"}
    /\ pc = "done" =>
          /\ \A i \in DOMAIN vocabulary :
                NonZero(vocabulary[i]) =>
                    (NoPayload(KeyOf(vocabulary[i]))
                        => vocabulary[i].quranic_sources = <<>>)
          /\ \A j \in DOMAIN exercises :
                NonZero(exercises[j]) =>
                    (NoPayload(KeyOf(exercises[j]))
                        => exercises[j].quranic_sources = <<>>)

\* C4 as stated: the context window crosses chapter boundaries: an exercise at
\* the last ayah of surah s < 114 has the context line (s+1, 1), one at ayah 1
\* of surah s > 1 has (s-1, last ayah of s-1).
C4_ContextCrossesChapters ==
    \A j \in DOMAIN exercises :
        LET e == exercises[j]
        IN  e.has_context =>
              /\ (e.surah \in 1..113 /\ e.ayah = ChaptersGet(e.surah))
                    => <<e.surah + 1, 1>> \in Range(ContextPairs(e))
              /\ (e.surah \in 2..114 /\ e.ayah = 1)
                    => <<e.surah - 1, ChaptersGet(e.surah - 1)>> \in Range(ContextPairs(e))

\* C4 amended: the context window stays inside the exercise's chapter: an
\* exercise at the last ayah n of surah s has exactly the context lines
\* (s, n-1), (s, n), one at ayah 1 has exactly (s, 1), (s, 2); every context
\* line is in the fetch set.
C4_ContextStaysInChapter ==
    \A j \in DOMAIN exercises :
        LET e == exercises[j]
        IN  e.has_context =>
              /\ (e.surah \in 1..114 /\ e.ayah = ChaptersGet(e.surah))
                    => ContextPairs(e) = <<<<e.surah, e.ayah - 1>>, <<e.surah, e.ayah>>>>
              /\ (e.surah \in 1..114 /\ e.ayah = 1)
                    => ContextPairs(e) = <<<<e.surah, 1>>, <<e.surah, 2>>>>
              /\ Range(ContextPairs(e)) \subseteq verse_keys

\* exercises at 2:286 and at 3:1 have their context windows
C4_Witness ==
    /\ pc = "done"
    /\ \E j \in DOMAIN exercises :
          /\ KeyOf(exercises[j]) = <<2, 286>>
          /\ ContextPairs(exercises[j]) = <<<<2, 285>>, <<2, 286>>>>
          /\ <<3, 1>> \notin verse_keys

\* C5: on a non-empty document exactly one access token is requested, and
\* it is requested before the first verse fetch.
C5_OneTokenBeforeFetches ==
    ~data_empty =>
        /\ pc = "start" => token_calls = 0 /\ DOMAIN verse_calls = {}
        /\ pc # "start" => token_calls = 1

\* a run that fetched two keys with one token
C5_Witness ==
    /\ pc = "done"
    /\ ~data_empty
    /\ token_calls = 1
    /\ Cardinality(DOMAIN verse_calls) >= 2

-----------------------------------------------------------------------------
(* Properties of the two ingestion paths *)

\* 1 <= surah <= 114 and 1 <= ayah <= chapter-length(surah)
InRange(surah, ayah) ==
    /\ 1 <= surah /\ surah <= 114
    /\ 1 <= ayah /\ ayah <= QURAN_CHAPTERS[surah]

\* the validation_warning of an entry; an entry without the key has none
WarningOf(e) ==
    IF "validation_warning" \in DOMAIN e THEN e.validation_warning ELSE <<>>

\* an exercise entry bears a valid reference or a warning, and keeps the
\* reference in surah, ayah and quranic_reference
ValidOrWarned(e) ==
    (e.surah # 0 /\ e.ayah # 0) =>
        /\ InRange(e.surah, e.ayah) \/ WarningOf(e) # <<>>
        /\ e.quranic_reference = <<e.surah, e.ayah>>

\* C6: every exercise entry build_json_from_rows produces has, when its
\* surah and ayah are non-zero, a reference in range or a non-empty
\* validation_warning, and keeps the reference.
C6_ExerciseReferenceValidOrWarned ==
    \A i \in DOMAIN exercises_out : ValidOrWarned(exercises_out[i])

\* the same for the entries of parse_exercise_line, which validates
ParsedExerciseValidOrWarned ==
    (v_pc = "parsed" /\ ~parsed_exercise.is_none) => ValidOrWarned(parsed_exercise)

\* the range "lo-hi" a validation message ends with
CitedRange(msg) == <<msg[Len(msg) - 3], msg[Len(msg) - 1]>>

\* C7: validate_quran_reference(surah, ayah) is valid exactly when
\* 1 <= surah <= 114 and 1 <= ayah <= chapter-length(surah); the message of an
\* out-of-range surah cites 1-114, that of an out-of-range ayah cites
\* 1-<chapter-length(surah)>.
C7_ValidExactlyInRange ==
    v_pc = "validated" =>
        /\ v_result.valid <=> InRange(v_surah, v_ayah)
        /\ v_result.valid => v_result.msg = <<>>
        /\ (v_surah < 1 \/ v_surah > 114) => CitedRange(v_result.msg) = <<1, 114>>
        /\ (v_surah \in 1..114 /\ ~InRange(v_surah, v_ayah))
              => CitedRange(v_result.msg) = <<1, QURAN_CHAPTERS[v_surah]>>

\* (2, 287) has been found invalid with the range 1-286
C7_Witness ==
    /\ v_pc = "validated"
    /\ v_surah = 2 /\ v_ayah = 287
    /\ ~v_result.valid
    /\ CitedRange(v_result.msg) = <<1, 286>>

\* the three Arabic forms of a vocabulary entry
ArabicForms(e) ==
    IF e.part_of_speech = "verb"
    THEN <<e.arabic_words.perfect, e.arabic_words.imperfect, e.arabic_words.verbal_noun>>
    ELSE <<e.arabic_words.singular, e.arabic_words.dual, e.arabic_words.plural>>

\* C8: every vocabulary entry build_json_from_rows emits has at least one
\* non-empty Arabic form.
C8_VocabularyEntryHasArabicForm ==
    \A i \in DOMAIN vocab : \E k \in 1..3 : ArabicForms(vocab[i])[k] # <<>>

\* C9: no chapter, exercise, surah or ayah text that is not an integer aborts
\* build_json_from_rows; a finished run has emitted one entry per exercise row.
C9_UnparseableNumberNeverAborts ==
    /\ rows_pc # "raised_value_error"
    /\ rows_pc = "done" =>
          Len(exercises_out) =
              Cardinality({i \in DOMAIN rows : RowType(rows[i]) = "exercise"})

\* C10: guess_sort_letter_part_of_speech_english raises for no English string.
C10_GuessNeverRaises == guess_pc # "raised_index_error"

-----------------------------------------------------------------------------
(* Properties of the sort-key heuristic *)

\* the string has no leading "(...)" or "[" qualifier
NoLeadingQualifier(s) == Strip(s) = <<>> \/ Head(Strip(s)) \notin {"(", "["}

\* the call has returned or raised
GuessOver == guess_pc \in {"done", "raised_index_error"}

\* C11: for an English string with no leading qualifier and no hint, the
\* result is "verb" exactly when the lower-cased string matches ^to\s+\w, with
\* the index of the first character after "to" and its whitespace and that
\* character as sort letter; otherwise it is "noun", index 0 and the first
\* character.
C11_VerbExactlyWhenToPattern ==
    (GuessOver /\ pos = "none" /\ NoLeadingQualifier(eng_str)) =>
        LET lowered == Lower(eng_str)
            end == MatchToVerbEnd(lowered)
        IN  /\ ~guess_result.raised
            /\ IF end # -1
               THEN /\ guess_result.part_of_speech = "verb"
                    /\ guess_result.sort_start_index = end - 1
                    /\ guess_result.sort_letter = lowered[end]
               ELSE /\ guess_result.part_of_speech = "noun"
                    /\ guess_result.sort_start_index = 0
                    /\ lowered # <<>> => guess_result.sort_letter = lowered[1]

-----------------------------------------------------------------------------
(* Properties of the glossary views *)

\* the writes of one view: from its section line to the end of its table
BlockOf(view) ==
    LET start == CHOOSE i \in DOMAIN fh : fh[i] = Section(view)
        end == CHOOSE j \in start..Len(fh) :
                   fh[j] = TableEnd /\ \A k \in start..(j - 1) : fh[k] # TableEnd
    IN  SubSeq(fh, start, end)

\* the view has been written
Written(view) == \E i \in DOMAIN fh : fh[i] = Section(view)

\* the letters of the group headers of a view, in the order of the file
HeadersOf(view) ==
    LET IsHeader(w) == w.kind = "header"
        headers == SelectSeq(BlockOf(view), IsHeader)
    IN  [k \in DOMAIN headers |-> headers[k].letter]

IsCanonical(letter) == \E k \in DOMAIN arabic_order : arabic_order[k] = letter

CanonicalIndex(letter) == CHOOSE k \in DOMAIN arabic_order : arabic_order[k] = letter

\* C12: the letter groups of the Arabic view follow the canonical 31-letter
\* sequence whatever the order of the vocabulary, and the groups of the other
\* letters come after all canonical groups, in code point order.
C12_ArabicGroupsInCanonicalOrder ==
    Written("arabic") =>
        LET h == HeadersOf("arabic")
        IN  /\ Len(arabic_order) = 31
            /\ \A i, j \in DOMAIN h :
                  i < j =>
                      /\ (IsCanonical(h[i]) /\ IsCanonical(h[j]))
                            => CanonicalIndex(h[i]) < CanonicalIndex(h[j])
                      /\ ~IsCanonical(h[i])
                            => (~IsCanonical(h[j]) /\ Ord(h[i]) < Ord(h[j]))

\* entries inserted in the order HAMZA, ALEF_HAMZA_BELOW, ALEF come out as the
\* groups ALEF, ALEF_HAMZA_BELOW, HAMZA
C12_Witness ==
    /\ Written("arabic")
    /\ Len(glossary_vocabulary) = 3
    /\ [i \in 1..3 |-> glossary_vocabulary[i].arabic_sort_letter]
          = <<"HAMZA", "ALEF_HAMZA_BELOW", "ALEF">>
    /\ HeadersOf("arabic") = <<"ALEF", "ALEF_HAMZA_BELOW", "HAMZA">>

\* the row writes of a view, in the order of the file
RowsOf(view) ==
    LET IsRow(w) == w.kind = "row"
    IN  SelectSeq(BlockOf(view), IsRow)

\* the (entry, definition) pairs of a vocabulary: one per definition, and
\* (entry, 0) for an entry without definitions
DefinitionPairs ==
    {<<i, k>> \in (DOMAIN glossary_vocabulary) \X (0..7) :
        LET definitions == Get(glossary_vocabulary[i], "definitions", <<>>)
        IN  IF definitions = <<>> THEN k = 0 ELSE k \in DOMAIN definitions}

\* the sort letter and the sort key of a pair, as stored in the entry
PairLetter(p) ==
    IF p[2] = 0 THEN Get(glossary_vocabulary[p[1]], "english_meanings_sort_letter", "")
    ELSE Get(glossary_vocabulary[p[1]].definitions[p[2]], "english_sort_letter", "")

PairKey(p) ==
    IF p[2] = 0
    THEN EnglishSortKey(Get(glossary_vocabulary[p[1]], "english_meanings", <<>>),
                        Get(glossary_vocabulary[p[1]], "english_meanings_sort_start_index", 0))
    ELSE EnglishSortKey(
             Get(glossary_vocabulary[p[1]].definitions[p[2]], "english_definition", <<>>),
             Get(glossary_vocabulary[p[1]].definitions[p[2]], "english_sort_start_index", 0))

\* the rows of the view are exactly the given pairs, each once
RowsAreExactly(view, pairs) ==
    LET r == RowsOf(view)
    IN  /\ Len(r) = Cardinality(pairs)
        /\ {<<r[n].position, r[n].definition>> : n \in DOMAIN r} = pairs

\* the letter of the header a write of the block stands under
HeaderAbove(block, n) ==
    LET above == {h \in 1..n : block[h].kind = "header"}
    IN  block[CHOOSE h \in above : \A g \in above : g <= h].letter

\* every definitions list has one element per comma-separated part
OneDefinitionPerPart ==
    \A i \in DOMAIN glossary_vocabulary :
        "definitions" \in DOMAIN glossary_vocabulary[i] =>
            Len(glossary_vocabulary[i].definitions)
                = Len(Split(glossary_vocabulary[i].english_meanings, ","))

\* rows stand under the header of their upper-cased sort letter, headers are
\* in increasing order, and the rows of a group are in the order of their
\* case-folded sort keys
EnglishGroupedAndOrdered ==
    LET block == BlockOf("english")
        h == HeadersOf("english")
    IN  /\ \A i, j \in DOMAIN h : i < j => Ord(h[i]) < Ord(h[j])
        /\ \A n \in DOMAIN block :
              block[n].kind = "row" =>
                  HeaderAbove(block, n)
                      = UpperChar(PairLetter(<<block[n].position, block[n].definition>>))
        /\ \A n \in DOMAIN block :
              (n > 1 /\ block[n].kind = "row" /\ block[n - 1].kind = "row") =>
                  ~StrLess(Lower(PairKey(<<block[n].position, block[n].definition>>)),
                           Lower(PairKey(<<block[n - 1].position, block[n - 1].definition>>)))

\* C13 as claimed: the English view has exactly one row per definition (N rows
\* for N comma-separated parts, one row for an entry without definitions),
\* grouped by upper-cased sort letter, groups in increasing order, rows of a
\* group by case-folded sort key.
C13_OneRowPerDefinition ==
    Written("english") =>
        /\ OneDefinitionPerPart
        /\ RowsAreExactly("english", DefinitionPairs)
        /\ EnglishGroupedAndOrdered

\* C13: the English view has exactly one row per definition whose sort letter
\* is not empty (and one row for an entry without definitions whose
\* english_meanings_sort_letter is not empty); a definition with an empty sort
\* letter has no row.  Grouping and order are as claimed.
C13_OneRowPerDefinitionWithSortLetter ==
    Written("english") =>
        /\ OneDefinitionPerPart
        /\ RowsAreExactly("english", {p \in DefinitionPairs : PairLetter(p) # ""})
        /\ EnglishGroupedAndOrdered

\* an entry with two comma-separated parts has two rows, an entry whose second
\* part is empty has one, and the group T is written before the group W
C13_Witness ==
    /\ Written("english")
    /\ Len(glossary_vocabulary) = 3
    /\ glossary_vocabulary[1].english_meanings = T_W_to_w
    /\ glossary_vocabulary[2].english_meanings = T_to_w_comma
    /\ glossary_vocabulary[3].english_meanings = T_to
    /\ "definitions" \in DOMAIN glossary_vocabulary[3]
    /\ HeadersOf("english") = <<"T", "W">>
    /\ Cardinality({n \in DOMAIN RowsOf("english") : RowsOf("english")[n].position = 1}) = 2
    /\ Cardinality({n \in DOMAIN RowsOf("english") : RowsOf("english")[n].position = 2}) = 1

\* the sort key the rows of a view are compared by
ComparedKey(view, w) ==
    IF view = "arabic" THEN get_arabic_sort_key(glossary_vocabulary[w.position])
    ELSE Lower(PairKey(<<w.position, w.definition>>))

\* two rows of one group with equal keys are in the order of the vocabulary
\* and, within one entry, of the definitions
StableIn(view) ==
    LET block == BlockOf(view)
    IN  \A n, m \in DOMAIN block :
            (/\ n < m
             /\ block[n].kind = "row" /\ block[m].kind = "row"
             /\ HeaderAbove(block, n) = HeaderAbove(block, m)
             /\ ComparedKey(view, block[n]) = ComparedKey(view, block[m]))
            => \/ block[n].position < block[m].position
               \/ /\ block[n].position = block[m].position
                  /\ block[n].definition < block[m].definition

\* C14: in both glossary views two rows of the same group with equal sort
\* keys are written in the order in which they occur in the vocabulary and,
\* in the English view, in definition order within one entry.
C14_TiesKeepInsertionOrder ==
    /\ Written("arabic") => StableIn("arabic")
    /\ Written("english") => StableIn("english")

\* two different entries with the same Arabic word and the English texts "w"
\* and "W" stand in both views in the order of the vocabulary, and the two
\* definitions "W" and "to w" of the third entry in definition order
C14_Witness ==
    /\ Written("english")
    /\ Len(glossary_vocabulary) = 3
    /\ glossary_vocabulary[1] # glossary_vocabulary[2]
    /\ glossary_vocabulary[3].english_meanings = T_W_to_w
    /\ get_arabic_sort_key(glossary_vocabulary[1]) = W_beh_alef
    /\ get_arabic_sort_key(glossary_vocabulary[2]) = W_beh_alef
    /\ [n \in DOMAIN RowsOf("arabic") |-> RowsOf("arabic")[n].position] = <<3, 1, 2>>
    /\ [n \in DOMAIN RowsOf("english") |->
           <<RowsOf("english")[n].position, RowsOf("english")[n].definition>>]
          = <<<<1, 1>>, <<2, 1>>, <<3, 1>>, <<3, 2>>>>

-----------------------------------------------------------------------------
(* Properties of the command line *)

\* C15: a run with --json-input sends no request to the Quran API, neither
\* for a token nor for a verse, with or without --no-api and with or without
\* credentials in the environment.
C15_JsonInputMakesNoApiCall ==
    args.json_input => (api_token_calls = 0 /\ api_verse_calls = 0)

-----------------------------------------------------------------------------
(* Properties of the OCR parser's vocabulary lines *)

\* the positions of the Arabic tokens of the line
ArabicPositions == {i \in DOMAIN vocab_line : contains_arabic_text(vocab_line[i])}

\* the line has exactly one Arabic token, a (pl.) marker and no (s.) marker,
\* and has been parsed under the 3-column noun header
OnlyPluralLineParsed ==
    /\ ocr_pc = "parsed"
    /\ current_vocab_type = "noun"
    /\ vocabulary_headers = <<"SINGULAR", "DUAL", "PLURAL">>
    /\ Cardinality(ArabicPositions) = 1
    /\ \E i \in DOMAIN vocab_line : vocab_line[i] = "(pl.)"
    /\ \A i \in DOMAIN vocab_line : vocab_line[i] # "(s.)"

\* the entry has the Arabic token of the line in column 3 and nothing in column 1
TokenInColumn3 ==
    /\ ~vocab_entry.is_none
    /\ vocab_entry.column3 = <<vocab_line[CHOOSE i \in ArabicPositions : TRUE]>>
    /\ vocab_entry.column1 = <<>>

\* C16 as claimed: such a line yields an entry with the token in column 3 and
\* column 1 empty, wherever the Arabic token stands on the line.
C16_OnlyPluralTokenInColumn3 == OnlyPluralLineParsed => TokenInColumn3

\* C16: such a line yields an entry with the token in column 3 and column 1
\* empty when at most one part stands before the Arabic token; when two or
\* more parts stand before it the token is taken as English text and the line
\* yields no entry.
C16_OnlyPluralTokenInColumn3IfEarly ==
    OnlyPluralLineParsed =>
        IF \E i \in ArabicPositions : i <= 2
        THEN TokenInColumn3
        ELSE vocab_entry = None

\* "(pl.) ARABIC_1 gods" has been parsed into column 3
C16_Witness ==
    /\ OnlyPluralLineParsed
    /\ vocab_line = <<"(pl.)", "ARABIC_1", "gods">>
    /\ vocab_entry.column3 = <<"ARABIC_1">>
    /\ vocab_entry.column1 = <<>>

------------------------------------------------------------------------------
(* Properties of tex_remove_arabic_marks and the word tally *)

\* text with every occurrence of the 16 listed code points deleted
WithoutListedMarks(text) == SelectSeq(text, LAMBDA c : c \notin chars_to_remove)

\* C17: tex_remove_arabic_marks(text) is text with every occurrence of the 16
\* code points U+06D6..U+06DC and U+06E0..U+06E8 deleted and every other
\* character unchanged, so the tally is keyed by words without these marks:
\* after any call the result is the text without the listed marks, and no key
\* of the word tally contains a listed mark.
C17_RemovesExactlyTheListedMarks ==
    /\ marks_pc \in {"removed", "counted"} =>
          marks_result = WithoutListedMarks(marks_text)
    /\ \A key \in DOMAIN self_arabic_words :
          \A i \in DOMAIN key : key[i] \notin chars_to_remove

------------------------------------------------------------------------------
(* Properties of enrichment of a document that was enriched before *)

IsPrefix(a, b) == Len(a) <= Len(b) /\ SubSeq(b, 1, Len(a)) = a

\* the entries are the entries of before, in their order, with every field
\* other than quranic_sources and context_lines unchanged
SameEntries ==
    /\ Len(vocabulary) = Len(before_vocabulary)
    /\ Len(exercises) = Len(before_exercises)
    /\ \A i \in DOMAIN vocabulary :
          /\ vocabulary[i].id = before_vocabulary[i].id
          /\ vocabulary[i].surah = before_vocabulary[i].surah
          /\ vocabulary[i].ayah = before_vocabulary[i].ayah
    /\ \A j \in DOMAIN exercises :
          /\ exercises[j].id = before_exercises[j].id
          /\ exercises[j].surah = before_exercises[j].surah
          /\ exercises[j].ayah = before_exercises[j].ayah

\* the quranic_sources list an entry had before the run is a prefix of the
\* list it has now
EntrySourcesKept ==
    /\ \A i \in DOMAIN vocabulary :
          IsPrefix(before_vocabulary[i].quranic_sources, vocabulary[i].quranic_sources)
    /\ \A j \in DOMAIN exercises :
          IsPrefix(before_exercises[j].quranic_sources, exercises[j].quranic_sources)

\* the same for the sources attached to the context lines of an exercise
LineSourcesKept ==
    \A j \in DOMAIN exercises :
        \A k \in DOMAIN before_exercises[j].context_lines :
            /\ k \in DOMAIN exercises[j].context_lines
            /\ IsPrefix(before_exercises[j].context_lines[k].quranic_sources,
                        exercises[j].context_lines[k].quranic_sources)

\* the second run has returned and it got the responses of the first run, its
\* loop over the equal set verse_keys ending on the same key
SecondRunSameResponses ==
    /\ pc = "done"
    /\ ~data_empty
    /\ runs = 2
    /\ cache = first_cache
    /\ <<ch, vs>> = first_loop

EntrySourcesTwice ==
    /\ \A i \in DOMAIN vocabulary :
          vocabulary[i].quranic_sources =
              before_vocabulary[i].quranic_sources \o before_vocabulary[i].quranic_sources
    /\ \A j \in DOMAIN exercises :
          exercises[j].quranic_sources =
              before_exercises[j].quranic_sources \o before_exercises[j].quranic_sources

\* what this run's attach appends to an item
Appended(item) ==
    LET key == <<item.surah, item.ayah>>
    IN  IF item.surah # 0 /\ item.ayah # 0 /\ key \in DOMAIN cache
           /\ cache[key].kind = "object"
        THEN SourcesOf(cache[key], <<ch, vs>>, key)
        ELSE <<>>

\* C18 as stated: enrichment never removes or reorders entries, changes no
\* field other than quranic_sources and context_lines, and never removes a
\* Verse Source already attached: every entry keeps its previous
\* quranic_sources list as a prefix, and so does every context line in the
\* document a run returns; a second run with the same responses leaves each
\* entry with every source twice.
C18_AppendOnly ==
    /\ SameEntries
    /\ EntrySourcesKept
    /\ pc = "done" => LineSourcesKept
    /\ SecondRunSameResponses => EntrySourcesTwice

\* C18, amended: the entries and their order are kept, their fields other than
\* quranic_sources and context_lines are kept, and the quranic_sources list of
\* every vocabulary and exercise entry keeps its previous content as a prefix;
\* a run that returns has appended to each of them exactly the sources of its
\* own response, so a second run with the same responses leaves them with
\* every source twice.  The context_lines of an exercise with a reference are
\* built anew by every run: a run that returns leaves each context line with
\* the sources of this run only.
C18_AppendOnlyOnEntries ==
    /\ SameEntries
    /\ EntrySourcesKept
    /\ pc = "done" /\ ~data_empty =>
          /\ \A i \in DOMAIN vocabulary :
                vocabulary[i].quranic_sources =
                    before_vocabulary[i].quranic_sources \o Appended(vocabulary[i])
          /\ \A j \in DOMAIN exercises :
                /\ exercises[j].quranic_sources =
                      before_exercises[j].quranic_sources \o Appended(exercises[j])
                /\ exercises[j].surah # 0 /\ exercises[j].ayah # 0 =>
                      \A k \in DOMAIN exercises[j].context_lines :
                          exercises[j].context_lines[k].quranic_sources =
                              Appended(exercises[j].context_lines[k])
    /\ SecondRunSameResponses => EntrySourcesTwice

\* a second run with the same responses has returned; a vocabulary entry and
\* an exercise carry their sources twice, a context line of the exercise
\* carries its sources once
C18_Witness ==
    /\ SecondRunSameResponses
    /\ \E i \in DOMAIN vocabulary :
          /\ before_vocabulary[i].quranic_sources # <<>>
          /\ Len(vocabulary[i].quranic_sources) =
                2 * Len(before_vocabulary[i].quranic_sources)
    /\ \E j \in DOMAIN exercises :
          /\ before_exercises[j].quranic_sources # <<>>
          /\ Len(exercises[j].quranic_sources) =
                2 * Len(before_exercises[j].quranic_sources)
          /\ \E k \in DOMAIN exercises[j].context_lines :
                /\ before_exercises[j].context_lines[k].quranic_sources # <<>>
                /\ exercises[j].context_lines[k].quranic_sources =
                      before_exercises[j].context_lines[k].quranic_sources

------------------------------------------------------------------------------
(* Properties of enrich_with_quran_api on items with a quranic_reference *)

\* the items of the document that carry a "chapter:verse" string
ReferencingItems ==
    {vocabulary[i] : i \in {x \in DOMAIN vocabulary : vocabulary[x].quranic_reference # <<>>}}
    \cup {exercises[j] : j \in {x \in DOMAIN exercises : exercises[x].quranic_reference # <<>>}}

\* C20: enrich_with_quran_api collects the verse references of the items from
\* their quranic_reference "chapter:verse" string, and after it returns every
\* such item carries the raw verse JSON under item["quran_api"]["verse"]:
\* once the references are collected the key of every referencing item is in
\* verse_keys, and when the call has returned every referencing item has a
\* quran_api member.
C20_CollectsFromReferenceAndAttachesRawVerse ==
    /\ pc \in {"fetch", "done"} /\ ~data_empty =>
          \A item \in ReferencingItems :
              add_ref({}, item.quranic_reference) \subseteq verse_keys
    /\ pc = "done" /\ ~data_empty =>
          \A item \in ReferencingItems : item.quran_api # "absent"

------------------------------------------------------------------------------
(* Properties of write_json and read_json *)

KeysOf(pairs) == {pairs[i][1] : i \in DOMAIN pairs}

\* dct[key]
DictGet(pairs, key) == pairs[CHOOSE i \in DOMAIN pairs : pairs[i][1] = key][2]

RECURSIVE PyEq(_, _)
\* a == b for two documents: lists are equal item by item, dicts when they
\* have the same keys with equal values, in whatever order they were inserted
PyEq(a, b) ==
    IF a.t # b.t THEN FALSE
    ELSE IF a.t = "list"
         THEN /\ Len(a.items) = Len(b.items)
              /\ \A i \in DOMAIN a.items : PyEq(a.items[i], b.items[i])
    ELSE IF a.t = "dict"
         THEN /\ KeysOf(a.pairs) = KeysOf(b.pairs)
              /\ \A key \in KeysOf(a.pairs) :
                    PyEq(DictGet(a.pairs, key), DictGet(b.pairs, key))
    ELSE a = b

\* C19: a document with string keys, JSON values and non-ASCII text, written
\* with write_json and read back with read_json, is equal to the original,
\* and writing the document read back produces the same bytes as the first
\* write.
C19_RoundTrip ==
    /\ json_pc \in {"read", "rewritten"} => PyEq(json_loaded, json_doc)
    /\ json_pc = "rewritten" => json_file = json_first_file

\* the document was written, read and written again; its keys were inserted
\* out of order, so the document read back lists them in another order, and
\* it holds a text with non-ASCII characters and one with characters the
\* encoder escapes
C19_Witness ==
    /\ json_pc = "rewritten"
    /\ json_loaded # json_doc
    /\ Len(json_doc.pairs) = 2
    /\ json_doc.pairs[1][1] = <<CP_BEH>>
    /\ json_doc.pairs[1][2] = JStr(<<CP_BEH, CP_SEEN, CP_LIGATURE_SALLA>>)
    /\ json_doc.pairs[2][1] = <<Code("a"), Code("\"")>>
    /\ json_doc.pairs[2][2].t = "str"
    /\ Code("\\") \in Range(json_doc.pairs[2][2].s)
    /\ json_file = json_first_file

------------------------------------------------------------------------------
(* Properties of read_csv *)

\* the name at position k of the header (counted from 0), "" past its end
ColumnAt(fieldnames, k) == IF k + 1 \in DOMAIN fieldnames THEN fieldnames[k + 1] ELSE ""

\* the layout a header matches by the columns at positions 2, 3 and 9
LayoutOf(fieldnames) ==
    IF ColumnAt(fieldnames, 3) = "Sing. / Perf."
    THEN IF ColumnAt(fieldnames, 9) = "Exercise Number" THEN "combined"
         ELSE "vocabulary-only"
    ELSE IF ColumnAt(fieldnames, 2) = "Exercise Number" THEN "exercise-only"
    ELSE "none"

\* the rows of the file with a non-empty value, in their order
FilledLines == SelectSeq(csv_lines, LAMBDA row : row.filled)

\* C21: read_csv classifies the header into exactly one of the three layouts
\* by the columns at positions 2, 3 and 9; for a header that matches none of
\* them, of any length, the call ends through exit(1) and returns no rows,
\* and for a header that matches one of them it returns the rows of the file.
C21_HeaderClassifiedOrExit ==
    csv_pc = "done" =>
        IF LayoutOf(csv_header) = "none"
        THEN csv_outcome = "exit(1)" /\ csv_rows = <<>>
        ELSE /\ csv_outcome = "returned"
             /\ Len(csv_rows) = Len(FilledLines)
             /\ \A i \in DOMAIN csv_rows : csv_rows[i].id = FilledLines[i].id


(***************************************************************************)
(* The section-start lines of the OCR scanner                              *)
(***************************************************************************)

\* the line the last step of the scanner read
LineRead == scan_lines'[Len(scan_lines')]

\* a line was read in this step
ReadsLine == Len(scan_lines') = Len(scan_lines) + 1

\* the line is a VOCABULARY <n> section start
IsVocabularyStart(line) == Truthy(detect_vocabulary_section(line))

\* the line is an EXERCISE <n> section start
IsExerciseStart(line) == Truthy(detect_exercise_section(line))

\* the scanner state: body, vocabulary section or exercise section
ScannerState ==
    IF in_vocabulary_section THEN "vocabulary"
    ELSE IF in_exercise_section THEN "exercise" ELSE "body"

\* C22: from any scanner state a VOCABULARY <n> line leaves the scanner in the
\* vocabulary section and an EXERCISE <n> line leaves it in the exercise
\* section, and neither changes the tracked chapter number
C22_SectionStartSetsSection ==
    [][ReadsLine =>
         /\ IsVocabularyStart(LineRead) =>
               /\ in_vocabulary_section' /\ ~in_exercise_section'
               /\ p_current_lesson' = p_current_lesson
         /\ IsExerciseStart(LineRead) =>
               /\ in_exercise_section' /\ ~in_vocabulary_section'
               /\ p_current_lesson' = p_current_lesson]_vars


(***************************************************************************)
(* The header in force for a vocabulary line                               *)
(***************************************************************************)

RECURSIVE ProcessorAfter(_)
\* the processor after the first k lines that were read
ProcessorAfter(k) ==
    IF k = 0 THEN NewProcessor ELSE process_line(ProcessorAfter(k - 1), scan_lines[k])

\* the lines read at which the scanner entered the vocabulary section
SectionEntries ==
    {k \in DOMAIN scan_lines : /\ ~ProcessorAfter(k - 1).in_vocabulary_section
                               /\ ProcessorAfter(k).in_vocabulary_section}

\* the header lines of the vocabulary section the scanner is in
HeaderLinesOfSection ==
    IF SectionEntries = {} THEN {}
    ELSE LET start == CHOOSE k \in SectionEntries : \A j \in SectionEntries : j <= k
         IN  {k \in DOMAIN scan_lines :
                 k > start /\ parse_vocabulary_headers(scan_lines[k]) # <<>>}

\* the headers a vocabulary line of this section is to be parsed under: those
\* of the last header line of the section, and those of __init__ before any
HeadersInForce ==
    IF HeaderLinesOfSection = {} THEN NewProcessor.vocabulary_headers
    ELSE LET last == CHOOSE k \in HeaderLinesOfSection :
                         \A j \in HeaderLinesOfSection : j <= k
         IN  parse_vocabulary_headers(scan_lines[last])

\* the vocabulary type that goes with HeadersInForce
VocabTypeInForce ==
    IF HeaderLinesOfSection = {} THEN NewProcessor.current_vocab_type
    ELSE VocabTypeOf(HeadersInForce)

\* this step appended an entry to vocabulary_data
AppendsEntry == ReadsLine /\ Len(vocabulary_data') = Len(vocabulary_data) + 1

\* C23: a vocabulary line is parsed under the layout and part of speech of the
\* last header line of its own vocabulary section; before any header line of
\* the section it is not parsed under the header of an earlier section
C23_HeaderEndsWithSection ==
    [][AppendsEntry =>
         vocabulary_data'[Len(vocabulary_data')] =
             parse_vocabulary_line(LineRead, p_current_page, p_current_lesson,
                                   VocabTypeInForce, HeadersInForce)]_vars


(***************************************************************************)
(* The Arabic tokens of a vocabulary line and its entry                    *)
(***************************************************************************)

\* the Arabic tokens of the vocabulary line
ArabicTokens == {vocab_line[i] : i \in {k \in DOMAIN vocab_line : contains_arabic_text(vocab_line[k])}}

\* the tokens the entry holds in its three columns and in its English text
TokensOfEntry(entry) ==
    Range(entry.column1) \cup Range(entry.column2) \cup Range(entry.column3)
        \cup Range(entry.english_translations)

\* C24: every Arabic token of a vocabulary line that yields an entry is in the
\* entry, in column 1, 2 or 3 or in the English text, for every part of speech
\* and every header layout of 1, 2 or 3 columns
C24_NoArabicTokenDropped ==
    (/\ ocr_pc = "parsed"
     /\ ~vocab_entry.is_none
     /\ Len(vocabulary_headers) \in 1..3)
        => ArabicTokens \subseteq TokensOfEntry(vocab_entry)


(***************************************************************************)
(* The reclassification of a noun row after a verb row                     *)
(***************************************************************************)

\* the row is a vocabulary row guessed "noun" with its three forms filled in
NounWithThreeForms(row) ==
    /\ RowType(row) = "vocabulary"
    /\ guess_sort_letter_part_of_speech_english(Text(row.english), "none").part_of_speech = "noun"
    /\ Text(row.col1) # <<>> /\ Text(row.col2) # <<>> /\ Text(row.col3) # <<>>

\* the entry of the vocabulary row k: every vocabulary row of these runs
\* yields one entry
EntryOfRow(k) ==
    vocab[Cardinality({j \in 1..k : RowType(rows[j]) = "vocabulary"})]

\* what the row k was classified as; "none" for a row that is no vocabulary row
ClassifiedAs(k) ==
    IF RowType(rows[k]) = "vocabulary" THEN EntryOfRow(k).part_of_speech ELSE "none"

\* C25: a vocabulary row guessed "noun" with all three forms becomes "verb"
\* when the row immediately before it was classified "verb", and stays "noun"
\* when that row was anything else or there is none
C25_SmoothingLooksAtThePrecedingRow ==
    rows_pc = "done" =>
        \A k \in DOMAIN rows :
            NounWithThreeForms(rows[k]) =>
                EntryOfRow(k).part_of_speech =
                    IF k > 1 /\ ClassifiedAs(k - 1) = "verb" THEN "verb" ELSE "noun"


(***************************************************************************)
(* The leading qualifier of an English text                                *)
(***************************************************************************)

\* the text begins, after strip(), with the qualifier q
BeginsWith(text, q) ==
    /\ Len(Strip(text)) >= Len(q)
    /\ SubSeq(Strip(text), 1, Len(q)) = q

\* the text after its leading qualifier q, stripped and in lower case
AfterQualifier(text, q) ==
    Strip(Lower(SubSeq(Strip(text), Len(q) + 1, Len(Strip(text)))))

\* the part of speech and the sort letter of a text without qualifier
Classified(test_str, p) ==
    LET end == MatchToVerbEnd(test_str)
    IN  [part_of_speech |-> IF end # -1 \/ p = "verb" THEN "verb" ELSE "noun",
         sort_letter |-> IF end # -1 THEN test_str[end] ELSE test_str[1]]

\* C26: a leading qualifier in parentheses or in square brackets is removed
\* before the ^to\s+\w test and before the sort letter is taken
C26_LeadingQualifierRemoved ==
    \A q \in {T_qualifier, T_bracketed} :
        (/\ guess_pc = "done"
         /\ BeginsWith(eng_str, q)
         /\ AfterQualifier(eng_str, q) # <<>>)
            => LET expected == Classified(AfterQualifier(eng_str, q), pos)
               IN  /\ guess_result.part_of_speech = expected.part_of_speech
                   /\ guess_result.sort_letter = expected.sort_letter


(***************************************************************************)
(* The source_url of the Verse Sources                                     *)
(***************************************************************************)

\* every Verse Source of the item names the item's own surah and ayah
SourcesNameItem(item) ==
    \A n \in DOMAIN item.quranic_sources :
        item.quranic_sources[n].source_url = <<item.surah, item.ayah>>

\* C27: every Verse Source attached to an entry or to a context line has a
\* source_url that names the surah and the ayah of the item it is attached
\* to, in whatever order the verses were fetched
C27_SourceUrlNamesOwnVerse ==
    pc = "done" =>
        /\ \A i \in DOMAIN vocabulary : SourcesNameItem(vocabulary[i])
        /\ \A j \in DOMAIN exercises :
              /\ SourcesNameItem(exercises[j])
              /\ \A k \in DOMAIN exercises[j].context_lines :
                    SourcesNameItem(exercises[j].context_lines[k])


(***************************************************************************)
(* The stored sort start index and the stored text                         *)
(***************************************************************************)

\* the 0-based index is inside the text and the character there, in lower
\* case, is the letter
IndexesLetter(text, index, letter) ==
    /\ index >= 0 /\ index < Len(text)
    /\ Lower(text)[index + 1] = letter

\* C28: the sort start index stored with english_meanings and with every
\* definition is an index into the stored text: the character there, in
\* lower case, is the stored sort letter, also for texts that begin with a
\* qualifier or with whitespace
C28_StoredIndexIsIntoStoredText ==
    rows_pc = "done" =>
        \A i \in DOMAIN vocab :
            /\ IndexesLetter(vocab[i].english_meanings,
                             vocab[i].english_meanings_sort_start_index,
                             vocab[i].english_meanings_sort_letter)
            /\ \A d \in DOMAIN vocab[i].definitions :
                  IndexesLetter(vocab[i].definitions[d].english_definition,
                                vocab[i].definitions[d].english_sort_start_index,
                                vocab[i].definitions[d].english_sort_letter)


(***************************************************************************)
(* The references of the context window                                    *)
(***************************************************************************)

\* (0, 0) or a reference that validate_quran_reference accepts
NoneOrValidReference(p) ==
    p = <<0, 0>> \/ validate_quran_reference(p[1], p[2]).valid

\* C29: for the reference of every exercise and every offset of the window
\* get_sequential_ayah returns (0, 0) or a valid reference, so every context
\* line recorded on an exercise and every key it adds to the fetch set is a
\* valid reference, also when the exercise's own reference is out of range
C29_ContextReferencesValid ==
    \A j \in DOMAIN exercises :
        /\ exercises[j].has_context =>
              \A i \in (0 - 1)..1 :
                  NoneOrValidReference(
                      get_sequential_ayah(exercises[j].surah, exercises[j].ayah, i, FALSE))
        /\ \A k \in DOMAIN exercises[j].context_lines :
              LET line == exercises[j].context_lines[k]
              IN  /\ validate_quran_reference(line.surah, line.ayah).valid
                  /\ pc = "done" => <<line.surah, line.ayah>> \in verse_keys


(***************************************************************************)
(* The rendered exercises                                                  *)
(***************************************************************************)

\* the places in fh where the exercise at position i is written
ItemsOf(i) ==
    {n \in DOMAIN writer_fh : writer_fh[n].kind = "item" /\ writer_fh[n].exercise = i}

\* the chapter whose heading is the last one before place n
HeadingBefore(n) ==
    LET headings == {m \in 1..n : writer_fh[m].kind = "chapter"}
    IN  IF headings = {} THEN -1
        ELSE writer_fh[CHOOSE m \in headings : \A other \in headings : other <= m].chapter

\* C30: every exercise with text or a reference is written exactly once,
\* under its chapter, also when its chapter number is the fallback 0;
\* chapters come in ascending order and the exercises of a chapter in
\* ascending exercise number
C30_EveryExerciseWrittenOnce ==
    writer_pc = "done" =>
        /\ \A i \in DOMAIN writer_exercises :
              HasItemContent(writer_exercises[i]) =>
                  /\ Cardinality(ItemsOf(i)) = 1
                  /\ \A n \in ItemsOf(i) :
                        HeadingBefore(n) = writer_exercises[i].exercise_chapter
        /\ \A m, n \in DOMAIN writer_fh :
              (m < n /\ writer_fh[m].kind = "chapter" /\ writer_fh[n].kind = "chapter")
                  => writer_fh[m].chapter < writer_fh[n].chapter
        /\ \A m, n \in DOMAIN writer_fh :
              (/\ m < n
               /\ writer_fh[m].kind = "item" /\ writer_fh[n].kind = "item"
               /\ writer_fh[m].chapter = writer_fh[n].chapter)
                  => writer_exercises[writer_fh[m].exercise].exercise_number
                         <= writer_exercises[writer_fh[n].exercise].exercise_number

====
